---- MODULE Spec2Model ----
(***************************************************************************)
(* Model of the radiology report generator's orchestration pipeline:       *)
(*   BaseAgent.generate_response_async  (retry / backoff / fallbacks)      *)
(*   SplitterAgent.split                (segmentation, both copies)        *)
(*   CentralAgent.process_patient_async (per-case pipeline)                *)
(*   RadiologyReportGenerator.process_batch_async (batch fan-out)          *)
(*                                                                         *)
(* A text is a sequence of tokens (strings); " " is a whitespace token.    *)
(***************************************************************************)
EXTENDS Integers, Sequences, FiniteSets, TLC

VARIABLES
    max_retries,    \* BaseAgent.max_retries
    initial_delay,  \* BaseAgent.initial_delay
    g,              \* one generate_response_async call (SpecGen)
    outcomes,       \* backend outcomes seen by g, oldest first (SpecGen)
    variant,        \* which copy of the pipeline runs
    inputs,         \* patient_data_list of process_batch_async
    cases,          \* one process_patient_async task per input
    bpc,            \* position of process_batch_async
    artifact,       \* text written to the output file
    writes,         \* number of times the output file was written
    errs_left,      \* backend errors the run may still see (pipeline specs)
    first_finished, \* index of the case whose task ended first (0: none yet)
    cpu_count,      \* os.cpu_count() of the host
    api_key,        \* os.environ.get("GOOGLE_API_KEY"); "None" when unset
    queued          \* backend calls waiting for a worker thread, oldest first

vars == <<max_retries, initial_delay, g, outcomes, variant, inputs, cases,
          bpc, artifact, writes, errs_left, first_finished, cpu_count, api_key,
          queued>>

genVars  == <<g, outcomes>>
pipeVars == <<variant, inputs, cases, bpc, artifact, writes, errs_left, first_finished,
              queued>>
cfgVars  == <<max_retries, initial_delay, cpu_count, api_key>>

----------------------------------------------------------------------------
(* Program constants *)

DefaultMaxRetries == 5
DefaultInitialDelay == 1

(* Bounds of the model *)

MaxInitialDelay == 2     \* SpecGen: initial_delay ranges over 1 .. MaxInitialDelay
MaxCases == 3            \* SpecBatch: cases per batch
MaxBatchErrors == 1      \* SpecBatch: backend errors per run
MaxCaseErrors == 2       \* SpecCase: backend errors per run
MaxPairErrors == 2       \* SpecPair: backend errors per run
MaxDispatchErrors == 1   \* SpecDispatch: backend errors per run
MaxCpus == 2             \* SpecDispatch: os.cpu_count() ranges over 1 .. MaxCpus
MaxMainErrors == 1       \* SpecMain: backend errors per run
MaxTwinErrors == 2       \* SpecTwin: backend errors per run
MaxRecordErrors == 1     \* SpecRecords: backend errors per run

----------------------------------------------------------------------------
(* Fallback texts of generate_response_async *)

FB_RATE    == <<"Unable to generate report due to rate limiting. Please try again later.">>
FB_POLICY  == <<"No significant abnormality detected based on the provided findings.">>
FB_GENERIC == <<"Unable to process findings. Please review input data.">>
FB_EXHAUST == <<"Unable to generate report after multiple attempts. Please try again later.">>

Fallbacks == {FB_RATE, FB_POLICY, FB_GENERIC, FB_EXHAUST}

----------------------------------------------------------------------------
(* Backend outcomes.  An error is described by what the handler tests:     *)
(*   rate   : str(e) contains '429' / 'quota' / 'rate limit' /             *)
(*            'resource exhausted'                                         *)
(*   conn   : str(e) contains 'timeout' / 'connection' / 'unavailable'     *)
(*   policy : isinstance(e, ValueError) and 'finish_reason' in str(e)      *)
(* and by the test of the schema-constrained split:                        *)
(*   split_rate : str(e) contains '429' / 'quota' / 'rate limit'           *)
(* A message that passes the test of split passes the rate test above.     *)

(* A successful call of the segmentation request answers in one of Forms;  *)
(* any other request is answered in the form "plain".                      *)

Errors ==
    {e \in [kind : {"err"}, rate : BOOLEAN, conn : BOOLEAN, policy : BOOLEAN,
            split_rate : BOOLEAN, form : {"none"}] : e.split_rate => e.rate}

OkAs(form) == [kind |-> "ok", rate |-> FALSE, conn |-> FALSE, policy |-> FALSE,
               split_rate |-> FALSE, form |-> form]

Ok == OkAs("plain")

Outcomes == {Ok} \cup Errors

RECURSIVE Pow2(_)
Pow2(n) == IF n = 0 THEN 1 ELSE 2 * Pow2(n - 1)

(* The except-branch of generate_response_async for error e raised by the  *)
(* attempt numbered attempt (0-based).                                     *)
OnErrorReraise(e, attempt, mr, delay0) ==
    IF e.rate THEN
        IF attempt < mr - 1
        THEN [act |-> "sleep", delay |-> delay0 * Pow2(attempt), text |-> <<>>]
        ELSE [act |-> "return", delay |-> 0, text |-> FB_RATE]
    ELSE IF e.conn /\ attempt < mr - 1 THEN
        [act |-> "sleep", delay |-> delay0 * Pow2(attempt), text |-> <<>>]
    ELSE IF e.policy THEN
        [act |-> "return", delay |-> 0, text |-> FB_POLICY]
    ELSE
        [act |-> "raise", delay |-> 0, text |-> <<>>]

OnErrorLinear(e, attempt, mr, delay0) ==
    IF e.rate THEN
        IF attempt < mr - 1
        THEN [act |-> "sleep", delay |-> delay0 * (attempt + 1), text |-> <<>>]
        ELSE [act |-> "return", delay |-> 0, text |-> FB_RATE]
    ELSE IF e.conn /\ attempt < mr - 1 THEN
        [act |-> "sleep", delay |-> delay0 * (attempt + 1), text |-> <<>>]
    ELSE IF e.policy THEN
        [act |-> "return", delay |-> 0, text |-> FB_POLICY]
    ELSE
        [act |-> "return", delay |-> 0, text |-> FB_GENERIC]

OnErrorRateFallsThrough(e, attempt, mr, delay0) ==
    IF (e.rate \/ e.conn) /\ attempt < mr - 1 THEN
        [act |-> "sleep", delay |-> delay0 * Pow2(attempt), text |-> <<>>]
    ELSE IF e.policy THEN
        [act |-> "return", delay |-> 0, text |-> FB_POLICY]
    ELSE
        [act |-> "return", delay |-> 0, text |-> FB_GENERIC]

OnErrorPolicyLast(e, attempt, mr, delay0) ==
    IF e.rate THEN
        IF attempt < mr - 1
        THEN [act |-> "sleep", delay |-> delay0 * Pow2(attempt), text |-> <<>>]
        ELSE [act |-> "return", delay |-> 0, text |-> FB_RATE]
    ELSE IF (e.conn \/ e.policy) /\ attempt < mr - 1 THEN
        [act |-> "sleep", delay |-> delay0 * Pow2(attempt), text |-> <<>>]
    ELSE IF e.policy THEN
        [act |-> "return", delay |-> 0, text |-> FB_POLICY]
    ELSE
        [act |-> "return", delay |-> 0, text |-> FB_GENERIC]

OnErrorRetryAll(e, attempt, mr, delay0) ==
    IF e.rate THEN
        IF attempt < mr - 1
        THEN [act |-> "sleep", delay |-> delay0 * Pow2(attempt), text |-> <<>>]
        ELSE [act |-> "return", delay |-> 0, text |-> FB_RATE]
    ELSE IF e.policy THEN
        [act |-> "return", delay |-> 0, text |-> FB_POLICY]
    ELSE IF attempt < mr - 1 THEN
        [act |-> "sleep", delay |-> delay0 * Pow2(attempt), text |-> <<>>]
    ELSE
        [act |-> "return", delay |-> 0, text |-> FB_GENERIC]

OnErrorConnAlwaysSleeps(e, attempt, mr, delay0) ==
    IF e.rate THEN
        IF attempt < mr - 1
        THEN [act |-> "sleep", delay |-> delay0 * Pow2(attempt), text |-> <<>>]
        ELSE [act |-> "return", delay |-> 0, text |-> FB_RATE]
    ELSE IF e.conn THEN
        [act |-> "sleep", delay |-> delay0 * Pow2(attempt), text |-> <<>>]
    ELSE IF e.policy THEN
        [act |-> "return", delay |-> 0, text |-> FB_POLICY]
    ELSE
        [act |-> "return", delay |-> 0, text |-> FB_GENERIC]

OnError(e, attempt, mr, delay0) ==
    IF e.rate THEN
        IF attempt < mr - 1
        THEN [act |-> "sleep", delay |-> delay0 * Pow2(attempt), text |-> <<>>]
        ELSE [act |-> "return", delay |-> 0, text |-> FB_RATE]
    ELSE IF e.conn /\ attempt < mr - 1 THEN
        [act |-> "sleep", delay |-> delay0 * Pow2(attempt), text |-> <<>>]
    ELSE IF e.policy THEN
        [act |-> "return", delay |-> 0, text |-> FB_POLICY]
    ELSE
        [act |-> "return", delay |-> 0, text |-> FB_GENERIC]

----------------------------------------------------------------------------
(* Texts *)

IsSpace(tok) == tok \in {" ", "\n", "\t"}

(* str.strip() *)
RECURSIVE LStrip(_)
LStrip(t) == IF t # <<>> /\ IsSpace(Head(t)) THEN LStrip(Tail(t)) ELSE t

RECURSIVE RStrip(_)
RStrip(t) ==
    IF t # <<>> /\ IsSpace(t[Len(t)]) THEN RStrip(SubSeq(t, 1, Len(t) - 1)) ELSE t

Strip(t) == RStrip(LStrip(t))

(* the test `x and x.strip()` guarding every section *)
HasText(t) == t # <<>> /\ Strip(t) # <<>>

(* sep.join(parts) *)
RECURSIVE Join(_, _)
Join(parts, sep) ==
    IF parts = <<>> THEN <<>>
    ELSE IF Len(parts) = 1 THEN parts[1]
    ELSE parts[1] \o sep \o Join(Tail(parts), sep)

(* dict.get(key, default) *)
Get(d, key, default) == IF key \in DOMAIN d THEN d[key] ELSE default

(* full_prompt of generate_response_async *)
FullPrompt(system_prompt, prompt) ==
    IF system_prompt # <<>> THEN system_prompt \o <<"\n\n">> \o prompt ELSE prompt

----------------------------------------------------------------------------
(* The backend.  A raw case text is <<tag, shape>>: tag identifies the     *)
(* patient, shape names what the text contains; <<>> and <<" ">> are the   *)
(* empty and the whitespace-only input.                                    *)

CanonicalKeys == <<"liver", "gb", "pancreas", "spleen", "kidney", "aorta">>

NoFindings ==
    [liver |-> <<>>, gb |-> <<>>, pancreas |-> <<>>, spleen |-> <<>>,
     kidney |-> <<>>, aorta |-> <<>>, others |-> <<>>, comment |-> <<>>]

(* The JSON object a faithful segmentation of the raw text contains. *)
ObjectOf(tag, shape) ==
    CASE shape = "LK" ->
           [NoFindings EXCEPT !.liver = <<tag, "liver cyst S5 5.3 x 2.9 mm">>,
                              !.kidney = <<tag, "kidney stone 4 mm">>]
      [] shape = "K" ->
           [NoFindings EXCEPT !.kidney = <<tag, "renal cyst 10 mm">>]
      [] shape = "NP" ->
           [NoFindings EXCEPT !.liver = <<"NP">>, !.gb = <<"NP">>,
                              !.pancreas = <<"NP">>, !.spleen = <<"NP">>,
                              !.kidney = <<"NP">>, !.aorta = <<"NP">>]
      [] shape = "LPA+O" ->
           [NoFindings EXCEPT
              !.liver = <<tag, "bright liver">>,
              !.gb = <<" ">>,
              !.pancreas = <<tag, "MPD 2 mm">>,
              !.aorta = <<" ", tag, "aorta 18 mm", " ">>,
              !.others = << [organ |-> <<"Thyroid">>,
                             findings |-> <<tag, "thyroid nodule 6 mm">>],
                            [organ |-> <<"Bladder">>, findings |-> <<"\n">>],
                            [findings |-> <<tag, "prostate 30 ml">>] >>,
              !.comment = <<tag, "follow up in 6 months">>]
      [] shape = "K+O" ->
           [kidney |-> <<tag, "renal cyst 10 mm">>,
            exam_date |-> <<"2024-01-15">>,
            others |-> << [organ |-> <<"Ovary">>],
                          [organ |-> <<"Uterus">>,
                           findings |-> <<tag, "myoma 20 mm">>] >>]
      [] OTHER -> NoFindings

SplitObject(raw) ==
    IF Len(raw) = 2 THEN ObjectOf(raw[1], raw[2]) ELSE NoFindings

PARSE_OPEN == "Parse this radiology patient information and extract data by body part:"

IsSplitPrompt(prompt) == \E i \in 1 .. Len(prompt) : prompt[i] = PARSE_OPEN

(* patient_data as embedded in the segmentation request *)
RawOf(prompt) ==
    LET i == CHOOSE j \in 1 .. Len(prompt) : prompt[j] = PARSE_OPEN
    IN  SubSeq(prompt, i + 1, Len(prompt) - 1)

(* Forms of a segmentation answer: the bare JSON object, the object inside *)
(* prose, and text without any JSON.                              *)
SplitForms == {"json", "fenced", "prose"}

IMPRESSION_OPEN == "Based on this complete radiology report, generate a professional IMPRESSION section:"

IsImpressionPrompt(prompt) == \E i \in 1 .. Len(prompt) : prompt[i] = IMPRESSION_OPEN

(* The sentence the system prompt of ImpressionAgent asks for when there   *)
(* are no significant findings at all.                                     *)
UNREMARKABLE == <<"Unremarkable ultrasound study.">>

(* Forms of an impression: a summary of the report, or that sentence. *)
ImpressionForms == {"plain", "unremarkable"}

FormsFor(prompt) ==
    IF IsSplitPrompt(prompt) THEN SplitForms
    ELSE IF IsImpressionPrompt(prompt) THEN ImpressionForms
    ELSE {"plain"}

(* Reply to a generation request (temperature 0). *)
Reply(prompt) == <<"reply to">> \o prompt

SplitReply(raw, form) ==
    CASE form = "json"   -> <<"{">> \o raw \o <<"}">>
      [] form = "fenced" -> <<"Here is the JSON:", "{">> \o raw \o <<"}", "Done.">>
      [] OTHER           -> <<"I could not find any findings in this text.">>

BackendText(prompt, form) ==
    CASE form = "plain"        -> Reply(prompt)
      [] form = "unremarkable" -> UNREMARKABLE
      [] OTHER                 -> SplitReply(RawOf(prompt), form)

OutcomesFor(prompt) == Errors \cup {OkAs(f) : f \in FormsFor(prompt)}

(* json.loads(text): the parsed object, or JSONDecodeError *)
JsonLoads(t) ==
    IF Len(t) >= 2 /\ t[1] = "{" /\ t[Len(t)] = "}"
       /\ \A i \in 2 .. Len(t) - 1 : t[i] \notin {"{", "}"}
    THEN [ok |-> TRUE, data |-> SplitObject(SubSeq(t, 2, Len(t) - 1))]
    ELSE [ok |-> FALSE, data |-> NoFindings]

(* re.search with the pattern brace, anything, brace (DOTALL, greedy):   *)
(* from the first opening brace to the last closing brace                  *)
RegexSearch(t) ==
    LET opens == {i \in 1 .. Len(t) : t[i] = "{"}
        none  == [found |-> FALSE, text |-> <<>>]
    IN  IF opens = {} THEN none
        ELSE LET a  == CHOOSE x \in opens : \A y \in opens : x <= y
                 bs == {i \in a + 1 .. Len(t) : t[i] = "}"}
             IN  IF bs = {} THEN none
                 ELSE LET b == CHOOSE x \in bs : \A y \in bs : x >= y
                      IN  [found |-> TRUE, text |-> SubSeq(t, a, b)]

----------------------------------------------------------------------------
(* generate_response_async *)

(* One generate_response_async call: its position, loop counter, number of *)
(* backend calls issued, the sleeps made so far and its return value.      *)
NewCall(prompt) ==
    [pc |-> "start", prompt |-> prompt, attempt |-> 0, calls |-> 0,
     sleeps |-> <<>>, result |-> <<>>]

(* Loop head: issue the backend call of iteration a, or leave the loop. *)
LoopHead(c, a, mr) ==
    IF a < mr
    THEN [c EXCEPT !.pc = "inflight", !.attempt = a, !.calls = c.calls + 1]
    ELSE [c EXCEPT !.pc = "done", !.result = FB_EXHAUST]

(* The coroutine starts running. *)
CallEnter(c, mr) == LoopHead(c, 0, mr)

(* The backend call of the current attempt returns outcome o. *)
CallReturn(c, o, mr, delay0) ==
    IF o.kind = "ok"
    THEN [c EXCEPT !.pc = "done", !.result = BackendText(c.prompt, o.form)]
    ELSE LET h == OnError(o, c.attempt, mr, delay0) IN
         CASE h.act = "sleep"  -> [c EXCEPT !.pc = "sleeping",
                                            !.sleeps = Append(c.sleeps, h.delay)]
           [] h.act = "return" -> [c EXCEPT !.pc = "done", !.result = h.text]
           [] OTHER            -> [c EXCEPT !.pc = "raised"]

(* asyncio.sleep(delay) is over: continue with the next iteration. *)
CallWake(c, mr) == LoopHead(c, c.attempt + 1, mr)

----------------------------------------------------------------------------
(* SplitterAgent.split and CentralAgent.process_patient_async *)

Variants == {"radiology_agent_system", "radiology_report_generator"}

(* PatientInfo() *)
EmptyPatientInfo ==
    [liver |-> <<>>, gb |-> <<>>, pancreas |-> <<>>, spleen |-> <<>>,
     kidney |-> <<>>, aorta |-> <<>>, others |-> <<>>, comment |-> <<>>]

MakePatientInfoDefaultNP(data) ==
    [liver    |-> Get(data, "liver", <<"NP">>),
     gb       |-> Get(data, "gb", <<"NP">>),
     pancreas |-> Get(data, "pancreas", <<"NP">>),
     spleen   |-> Get(data, "spleen", <<"NP">>),
     kidney   |-> Get(data, "kidney", <<"NP">>),
     aorta    |-> Get(data, "aorta", <<"NP">>),
     others   |-> Get(data, "others", <<>>),
     comment  |-> Get(data, "comment", <<>>)]

(* PatientInfo(liver=data.get("liver", ""), ...) *)
MakePatientInfo(data) ==
    [liver    |-> Get(data, "liver", <<>>),
     gb       |-> Get(data, "gb", <<>>),
     pancreas |-> Get(data, "pancreas", <<>>),
     spleen   |-> Get(data, "spleen", <<>>),
     kidney   |-> Get(data, "kidney", <<>>),
     aorta    |-> Get(data, "aorta", <<>>),
     others   |-> Get(data, "others", <<>>),
     comment  |-> Get(data, "comment", <<>>)]

SPLIT_SYS == <<"system prompt of SplitterAgent">>
OTHERS_SYS == <<"system prompt of OthersAgent">>
IMPRESSION_SYS == <<"system prompt of ImpressionAgent">>
SystemPrompt(key) == <<"system prompt of the agent for", key>>

SplitPromptAgent(raw) ==
    FullPrompt(SPLIT_SYS,
        <<PARSE_OPEN>> \o raw \o
        <<"Return a JSON object with the structure specified in your system prompt.">>)

SplitPromptSchema(raw) ==
    <<PARSE_OPEN>> \o raw \o <<"Extract the information according to the schema.">>

OrganPhrase(v, key) ==
    CASE key = "liver"    -> "the liver"
      [] key = "gb"       -> IF v = "radiology_agent_system"
                             THEN "the gallbladder and biliary system"
                             ELSE "the gallbladder and CBD"
      [] key = "pancreas" -> IF v = "radiology_agent_system"
                             THEN "the pancreas" ELSE "the pancreas and MPD"
      [] key = "spleen"   -> "the spleen"
      [] key = "kidney"   -> "the kidneys"
      [] OTHER            -> "the aorta"

SectionPrompt(v, key, findings) ==
    <<"Generate a radiology report section for", OrganPhrase(v, key),
      "based on these findings:">> \o findings \o
    <<"Provide only the report text, no headers or labels.">>

OtherPrompt(organ_name, findings, comment) ==
    <<"Generate a radiology report section for">> \o organ_name \o
    <<"based on these findings:">> \o findings \o
    <<"Additional Comments: - Look at the part of the additional comments section that is relevant to">>
    \o organ_name \o <<"findings:">> \o comment \o
    <<"Provide only the report text.">>

ImpressionPrompt(full_report, comment) ==
    <<IMPRESSION_OPEN, "REPORT:">> \o full_report \o <<"ORIGINAL COMMENT:">> \o comment \o
    <<"Provide only the impression text, no headers.">>

(* str.upper() on the ultrasound types in use *)
Upper(type) == IF type = "Abdomen" THEN "ABDOMEN" ELSE "PELVIS"

Title(v, ultrasound_type) ==
    IF v = "radiology_agent_system"
    THEN <<"RADIOLOGY REPORT">>
    ELSE <<"ULTRASOUND", Upper(ultrasound_type)>>

FinalReportSummaryFirst(v, ultrasound_type, full_report, impression) ==
    Title(v, ultrasound_type) \o <<"\n\n", "IMPRESSION:", "\n">> \o impression \o
    <<"\n\n">> \o full_report \o <<"\n">>

FinalReport(v, ultrasound_type, full_report, impression) ==
    Title(v, ultrasound_type) \o <<"\n\n">> \o full_report \o
    <<"\n\n", "IMPRESSION:", "\n">> \o impression \o <<"\n">>

(* One process_patient_async task. *)
NewCase ==
    [pc |-> "new", info |-> EmptyPatientInfo, tasks |-> <<>>,
     cur |-> NewCall(<<>>), oidx |-> 0, organ_reports |-> <<>>,
     report |-> <<>>, order |-> <<>>]

(* Step 5: compose the final report and return it. *)
Finish(c, v, input, impression) ==
    [c EXCEPT !.pc = "done",
              !.report = FinalReport(v, input.ultrasound_type,
                                     Join(c.organ_reports, <<"\n\n">>), impression)]

StartImpressionTakesNote(c, mr) ==
    [c EXCEPT !.pc = "impression",
              !.info.comment = <<>>,
              !.cur = CallEnter(NewCall(FullPrompt(IMPRESSION_SYS,
                          ImpressionPrompt(Join(c.organ_reports, <<"\n\n">>),
                                           c.info.comment))), mr)]

(* Steps 3 and 4: join the sections and call the impression agent. *)
StartImpression(c, mr) ==
    [c EXCEPT !.pc = "impression",
              !.cur = CallEnter(NewCall(FullPrompt(IMPRESSION_SYS,
                          ImpressionPrompt(Join(c.organ_reports, <<"\n\n">>),
                                           c.info.comment))), mr)]

(* The next entry of patient_info.others, from position j on, whose        *)
(* findings are not blank; 0 when there is none.                           *)
NextOther(info, j) ==
    LET rest == {k \in j .. Len(info.others) :
                    HasText(Get(info.others[k], "findings", <<>>))}
    IN  IF rest = {} THEN 0 ELSE CHOOSE k \in rest : \A m \in rest : k <= m

OthersFromNoNote(c, j, mr) ==
    LET n == NextOther(c.info, j) IN
    IF n = 0 THEN StartImpression(c, mr)
    ELSE LET entry == c.info.others[n] IN
         [c EXCEPT !.pc = "others", !.oidx = n,
                   !.cur = CallEnter(NewCall(FullPrompt(OTHERS_SYS,
                               OtherPrompt(Get(entry, "organ", <<"Unknown">>),
                                           Get(entry, "findings", <<>>),
                                           <<>>))), mr)]

(* The loop over patient_info.others, resumed at position j. *)
OthersFrom(c, j, mr) ==
    LET n == NextOther(c.info, j) IN
    IF n = 0 THEN StartImpression(c, mr)
    ELSE LET entry == c.info.others[n] IN
         [c EXCEPT !.pc = "others", !.oidx = n,
                   !.cur = CallEnter(NewCall(FullPrompt(OTHERS_SYS,
                               OtherPrompt(Get(entry, "organ", <<"Unknown">>),
                                           Get(entry, "findings", <<>>),
                                           c.info.comment))), mr)]

AfterGatherByCompletion(c, mr) ==
    OthersFrom([c EXCEPT !.organ_reports =
                    [k \in 1 .. Len(c.tasks) |->
                        LET j == CHOOSE x \in 1 .. Len(c.tasks) :
                                    c.tasks[x].key = c.order[k]
                        IN  c.tasks[j].call.result]],
               1, mr)

AfterGatherDropFallbacks(c, mr) ==
    OthersFrom([c EXCEPT !.organ_reports =
                    SelectSeq([k \in 1 .. Len(c.tasks) |-> c.tasks[k].call.result],
                              LAMBDA t : t \notin Fallbacks)],
               1, mr)

(* organ_reports = await asyncio.gather has returned. *)
AfterGather(c, mr) ==
    OthersFrom([c EXCEPT !.organ_reports =
                    [k \in 1 .. Len(c.tasks) |-> c.tasks[k].call.result]],
               1, mr)

BuildTasksSkipNP(v, info, mr) ==
    LET present == SelectSeq(CanonicalKeys,
                       LAMBDA k : HasText(info[k]) /\ info[k] # <<"NP">>) IN
    [k \in 1 .. Len(present) |->
        [key  |-> present[k],
         call |-> CallEnter(NewCall(FullPrompt(SystemPrompt(present[k]),
                      SectionPrompt(v, present[k], info[present[k]]))), mr)]]

BuildTasksNoStrip(v, info, mr) ==
    LET present == SelectSeq(CanonicalKeys, LAMBDA k : info[k] # <<>>) IN
    [k \in 1 .. Len(present) |->
        [key  |-> present[k],
         call |-> CallEnter(NewCall(FullPrompt(SystemPrompt(present[k]),
                      SectionPrompt(v, present[k], info[present[k]]))), mr)]]

(* Step 2: one generate call per canonical section with text. *)
BuildTasks(v, info, mr) ==
    LET present == SelectSeq(CanonicalKeys, LAMBDA k : HasText(info[k])) IN
    [k \in 1 .. Len(present) |->
        [key  |-> present[k],
         call |-> CallEnter(NewCall(FullPrompt(SystemPrompt(present[k]),
                      SectionPrompt(v, present[k], info[present[k]]))), mr)]]

(* split has returned info: dispatch; gather() of no task returns at once. *)
AfterSplit(c, v, info, mr) ==
    LET tasks == BuildTasks(v, info, mr)
        c1 == [c EXCEPT !.info = info, !.tasks = tasks, !.pc = "organs"]
    IN  IF tasks = <<>> THEN AfterGather(c1, mr) ELSE c1

(* radiology_agent_system.py: the object found in the response *)
ParseAgent(response) ==
    LET m == RegexSearch(response) IN
    IF m.found THEN JsonLoads(m.text) ELSE JsonLoads(response)

(* radiology_agent_system.py split, after generate_response_async returned *)
AgentSplitDone(c, v, mr) ==
    LET p == ParseAgent(c.cur.result) IN
    IF p.ok THEN AfterSplit(c, v, MakePatientInfo(p.data), mr)
    ELSE [c EXCEPT !.pc = "raised"]

(* the rate-limit test of the schema-constrained split *)
SplitRetryDelay == 2

SchemaSplitReturnRetriesConn(c, o, v, mr) ==
    IF o.kind = "ok" THEN
        LET p == JsonLoads(BackendText(c.cur.prompt, o.form)) IN
        IF p.ok THEN AfterSplit(c, v, MakePatientInfo(p.data), mr)
        ELSE AfterSplit(c, v, EmptyPatientInfo, mr)
    ELSE IF c.cur.attempt = 0 /\ (o.split_rate \/ o.conn) THEN
        [c EXCEPT !.cur.pc = "sleeping",
                  !.cur.sleeps = Append(c.cur.sleeps, SplitRetryDelay)]
    ELSE AfterSplit(c, v, EmptyPatientInfo, mr)

(* radiology_report_generator.py split: its backend call returned o *)
SchemaSplitReturn(c, o, v, mr) ==
    IF o.kind = "ok" THEN
        LET p == JsonLoads(BackendText(c.cur.prompt, o.form)) IN
        IF p.ok THEN AfterSplit(c, v, MakePatientInfo(p.data), mr)
        ELSE AfterSplit(c, v, EmptyPatientInfo, mr)
    ELSE IF c.cur.attempt = 0 /\ o.split_rate THEN
        [c EXCEPT !.cur.pc = "sleeping",
                  !.cur.sleeps = Append(c.cur.sleeps, SplitRetryDelay)]
    ELSE AfterSplit(c, v, EmptyPatientInfo, mr)

(* the first step of process_patient_async, up to its first suspension *)
CaseEnter(c, v, input, mr) ==
    IF v = "radiology_agent_system" THEN
        [c EXCEPT !.pc = "split",
                  !.cur = CallEnter(NewCall(SplitPromptAgent(input.raw)), mr)]
    ELSE IF input.raw = <<>> \/ Strip(input.raw) = <<>> THEN
        AfterSplit(c, v, EmptyPatientInfo, mr)
    ELSE
        [c EXCEPT !.pc = "split",
                  !.cur = [NewCall(SplitPromptSchema(input.raw))
                              EXCEPT !.pc = "inflight", !.calls = 1]]

(* the awaited generate call of split / others / impression has returned *)
CurDone(c, v, input, mr) ==
    CASE c.pc = "split"  -> AgentSplitDone(c, v, mr)
      [] c.pc = "others" ->
            OthersFrom([c EXCEPT !.organ_reports = Append(@, c.cur.result)],
                       c.oidx + 1, mr)
      [] OTHER -> Finish(c, v, input, c.cur.result)

(* the backend answers the call the case itself awaits *)
CurReturn(c, o, v, input, mr, delay0) ==
    IF v = "radiology_report_generator" /\ c.pc = "split"
    THEN SchemaSplitReturn(c, o, v, mr)
    ELSE LET cur2 == CallReturn(c.cur, o, mr, delay0)
             c2 == [c EXCEPT !.cur = cur2]
         IN  CASE cur2.pc = "done"   -> CurDone(c2, v, input, mr)
               [] cur2.pc = "raised" -> [c2 EXCEPT !.pc = "raised"]
               [] OTHER              -> c2

(* the sleep of the call the case awaits is over *)
CurWake(c, v, mr) ==
    IF v = "radiology_report_generator" /\ c.pc = "split"
    THEN [c EXCEPT !.cur.pc = "inflight", !.cur.attempt = 1,
                   !.cur.calls = c.cur.calls + 1]
    ELSE [c EXCEPT !.cur = CallWake(c.cur, mr)]

TaskReturnSharedAttempt(c, k, o, mr, delay0) ==
    LET call2 == CallReturn(c.tasks[k].call, o, mr, delay0) IN
    [c EXCEPT !.tasks = [j \in 1 .. Len(c.tasks) |->
                            IF j = k THEN [c.tasks[j] EXCEPT !.call = call2]
                            ELSE IF o.kind = "err" /\ c.tasks[j].call.pc # "done"
                            THEN [c.tasks[j] EXCEPT !.call.attempt = @ + 1]
                            ELSE c.tasks[j]],
              !.order = IF call2.pc \in {"done", "raised"}
                        THEN Append(@, c.tasks[k].key) ELSE @]

(* the backend answers the call of the k-th task under gather *)
TaskReturn(c, k, o, mr, delay0) ==
    LET call2 == CallReturn(c.tasks[k].call, o, mr, delay0) IN
    [c EXCEPT !.tasks[k].call = call2,
              !.order = IF call2.pc \in {"done", "raised"}
                        THEN Append(@, c.tasks[k].key) ELSE @]

TaskWake(c, k, mr) == [c EXCEPT !.tasks[k].call = CallWake(c.tasks[k].call, mr)]

GatherDoneFallbackRaises(c, mr) ==
    IF \E k \in 1 .. Len(c.tasks) :
          c.tasks[k].call.pc = "raised" \/ c.tasks[k].call.result \in Fallbacks
    THEN [c EXCEPT !.pc = "raised"]
    ELSE AfterGather(c, mr)

(* gather wakes process_patient_async: with the results in task order, or  *)
(* with the exception of a task                                            *)
GatherDone(c, mr) ==
    IF \E k \in 1 .. Len(c.tasks) : c.tasks[k].call.pc = "raised"
    THEN [c EXCEPT !.pc = "raised"]
    ELSE AfterGather(c, mr)

GatherReadyFirstDone(c) ==
    /\ c.pc = "organs"
    /\ \E k \in 1 .. Len(c.tasks) : c.tasks[k].call.pc \in {"raised", "done"}

GatherReady(c) ==
    /\ c.pc = "organs"
    /\ \/ \E k \in 1 .. Len(c.tasks) : c.tasks[k].call.pc = "raised"
       \/ \A k \in 1 .. Len(c.tasks) : c.tasks[k].call.pc = "done"

----------------------------------------------------------------------------
(* RadiologyReportGenerator.process_batch_async, run by process_batch *)

N == Len(inputs)

Pending(c) == c.pc \in {"new", "split", "organs", "others", "impression"}

(* asyncio.to_thread runs the backend call on the default executor of the *)
(* event loop: a ThreadPoolExecutor of min(32, os.cpu_count() + 4) worker  *)
(* threads, which takes the submitted calls in the order of submission.    *)
Min(a, b) == IF a <= b THEN a ELSE b

Workers == Min(32, cpu_count + 4)

(* <<i, 0>> is the call case i awaits itself, <<i, k>> its k-th task *)
CallAt(cs, id) ==
    IF id[2] = 0 THEN cs[id[1]].cur ELSE cs[id[1]].tasks[id[2]].call

(* the calls of cs that await asyncio.to_thread *)
Submitted(cs) ==
    {id \in (1 .. Len(cs)) \X (0 .. Len(CanonicalKeys)) :
        /\ Pending(cs[id[1]])
        /\ IF id[2] = 0
           THEN cs[id[1]].pc \in {"split", "others", "impression"}
           ELSE cs[id[1]].pc = "organs" /\ id[2] <= Len(cs[id[1]].tasks)
        /\ CallAt(cs, id).pc = "inflight"}

(* the ids of set S in the order of their creation by one step *)
RECURSIVE InOrder(_)
InOrder(S) ==
    IF S = {} THEN <<>>
    ELSE LET m == CHOOSE x \in S :
                     \A y \in S : x[1] < y[1] \/ (x[1] = y[1] /\ x[2] <= y[2])
         IN  <<m>> \o InOrder(S \ {m})

(* the queue of the executor after a step from old to new: calls that      *)
(* returned free their worker, the calls submitted by the step join the    *)
(* queue, and the free workers take calls from its head                    *)
Requeue(q, old, new) ==
    LET same    == {id \in Submitted(old) \cap Submitted(new) :
                       CallAt(old, id) = CallAt(new, id)}
        kept    == SelectSeq(q, LAMBDA id : id \in same)
        running == {id \in same : \A j \in 1 .. Len(q) : q[j] # id}
        waiting == kept \o InOrder(Submitted(new) \ same)
        free    == Workers - Cardinality(running)
    IN  IF free >= Len(waiting) THEN <<>>
        ELSE SubSeq(waiting, free + 1, Len(waiting))

(* the call has a worker thread *)
OnWorker(id) == \A j \in 1 .. Len(queued) : queued[j] # id

BANNER == "================================================================================"

(* the identifier in the banner of the i-th block *)
Ident(v, i, input) ==
    IF v = "radiology_agent_system" THEN ToString(i) ELSE input.name

(* the banner lines around PATIENT and the identifier, then the report *)
Block(v, i, input, report) ==
    <<BANNER, "\n", "PATIENT", Ident(v, i, input), "\n", BANNER, "\n\n">> \o report

BATCH_SEP == <<"\n\n\n">>

GatherResultsFirstDoneFirst(cs) ==
    [i \in 1 .. Len(cs) |->
        IF first_finished = 0 THEN cs[i].report
        ELSE IF i = 1 THEN cs[first_finished].report
        ELSE IF i = first_finished THEN cs[1].report
        ELSE cs[i].report]

(* the results of asyncio.gather: by position of the task *)
GatherResults(cs) == [i \in 1 .. Len(cs) |-> cs[i].report]

CombinedReport(v, ins, reports) ==
    Join([i \in 1 .. Len(reports) |-> Block(v, i, ins[i], reports[i])], BATCH_SEP)

(* process_batch_async runs up to `await asyncio.gather`; every  *)
(* process_patient_async task then runs up to its first suspension.  With  *)
(* no input, gather returns at once and the average per patient divides by *)
(* zero.                                                                   *)
BatchStart ==
    /\ bpc = "init"
    /\ cases # <<>> => \A i \in 1 .. N : cases[i].pc = "new"
    /\ IF N = 0
       THEN /\ bpc' = "raised"
            /\ cases' = cases
       ELSE /\ bpc' = "gather"
            /\ cases' = [i \in 1 .. N |->
                            CaseEnter(cases[i], variant, inputs[i], max_retries)]
    /\ queued' = Requeue(queued, cases, cases')
    /\ UNCHANGED <<cfgVars, genVars, variant, inputs, artifact, writes,
                   errs_left, first_finished>>

(* note the case that ends first *)
NoteFinished(old, new) ==
    LET ended == {i \in 1 .. Len(old) : Pending(old[i]) /\ ~Pending(new[i])}
    IN  IF first_finished = 0 /\ ended # {}
        THEN CHOOSE i \in ended : TRUE
        ELSE first_finished

(* a backend call awaited by case i itself returns *)
BackendCur(i) ==
    /\ cases[i].pc \in {"split", "others", "impression"}
    /\ cases[i].cur.pc = "inflight"
    /\ OnWorker(<<i, 0>>)
    /\ \E o \in OutcomesFor(cases[i].cur.prompt) :
          /\ o.kind = "err" => errs_left > 0
          /\ errs_left' = IF o.kind = "err" THEN errs_left - 1 ELSE errs_left
          /\ cases' = [cases EXCEPT ![i] =
                          CurReturn(cases[i], o, variant, inputs[i],
                                    max_retries, initial_delay)]
    /\ first_finished' = NoteFinished(cases, cases')
    /\ queued' = Requeue(queued, cases, cases')
    /\ UNCHANGED <<cfgVars, genVars, variant, inputs, bpc, artifact, writes>>

(* the backend call of the k-th section task of case i returns *)
BackendTask(i, k) ==
    /\ cases[i].pc = "organs"
    /\ cases[i].tasks[k].call.pc = "inflight"
    /\ OnWorker(<<i, k>>)
    /\ \E o \in OutcomesFor(cases[i].tasks[k].call.prompt) :
          /\ o.kind = "err" => errs_left > 0
          /\ errs_left' = IF o.kind = "err" THEN errs_left - 1 ELSE errs_left
          /\ cases' = [cases EXCEPT ![i] =
                          TaskReturn(cases[i], k, o, max_retries, initial_delay)]
    /\ queued' = Requeue(queued, cases, cases')
    /\ UNCHANGED <<cfgVars, genVars, variant, inputs, bpc, artifact, writes,
                   first_finished>>

WakeCur(i) ==
    /\ cases[i].pc \in {"split", "others", "impression"}
    /\ cases[i].cur.pc = "sleeping"
    /\ cases' = [cases EXCEPT ![i] = CurWake(cases[i], variant, max_retries)]
    /\ queued' = Requeue(queued, cases, cases')
    /\ UNCHANGED <<cfgVars, genVars, variant, inputs, bpc, artifact, writes,
                   errs_left, first_finished>>

WakeTask(i, k) ==
    /\ cases[i].pc = "organs"
    /\ cases[i].tasks[k].call.pc = "sleeping"
    /\ cases' = [cases EXCEPT ![i] = TaskWake(cases[i], k, max_retries)]
    /\ queued' = Requeue(queued, cases, cases')
    /\ UNCHANGED <<cfgVars, genVars, variant, inputs, bpc, artifact, writes,
                   errs_left, first_finished>>

(* the gather of case i wakes process_patient_async *)
CaseJoin(i) ==
    /\ GatherReady(cases[i])
    /\ cases' = [cases EXCEPT ![i] = GatherDone(cases[i], max_retries)]
    /\ first_finished' = NoteFinished(cases, cases')
    /\ queued' = Requeue(queued, cases, cases')
    /\ UNCHANGED <<cfgVars, genVars, variant, inputs, bpc, artifact, writes,
                   errs_left>>

BatchJoinWritesPartial ==
    /\ bpc = "gather"
    /\ IF \E i \in 1 .. N : cases[i].pc = "raised"
       THEN /\ bpc' = "raised"
            /\ artifact' = CombinedReport(variant, inputs, GatherResults(cases))
            /\ writes' = writes + 1
       ELSE /\ \A i \in 1 .. N : cases[i].pc = "done"
            /\ bpc' = "done"
            /\ artifact' = CombinedReport(variant, inputs, GatherResults(cases))
            /\ writes' = writes + 1
    /\ UNCHANGED <<cfgVars, genVars, variant, inputs, cases, errs_left, first_finished,
                   queued>>

(* the gather of the batch wakes process_batch_async: with the exception   *)
(* of the first failed case, or with every report, which it formats and    *)
(* writes to the output file                                               *)
BatchJoin ==
    /\ bpc = "gather"
    /\ IF \E i \in 1 .. N : cases[i].pc = "raised"
       THEN /\ bpc' = "raised"
            /\ UNCHANGED <<artifact, writes>>
       ELSE /\ \A i \in 1 .. N : cases[i].pc = "done"
            /\ bpc' = "done"
            /\ artifact' = CombinedReport(variant, inputs, GatherResults(cases))
            /\ writes' = writes + 1
    /\ UNCHANGED <<cfgVars, genVars, variant, inputs, cases, errs_left, first_finished,
                   queued>>

(* asyncio.run(process_batch_async(...)) ends with the exception and       *)
(* cancels the tasks that are still pending                                *)
RunShutdown ==
    /\ bpc = "raised"
    /\ \E i \in 1 .. N : Pending(cases[i])
    /\ cases' = [i \in 1 .. N |->
                    IF Pending(cases[i]) THEN [cases[i] EXCEPT !.pc = "cancelled"]
                    ELSE cases[i]]
    /\ queued' = Requeue(queued, cases, cases')
    /\ UNCHANGED <<cfgVars, genVars, variant, inputs, bpc, artifact, writes,
                   errs_left, first_finished>>

Backend == \E i \in 1 .. N :
              \/ BackendCur(i)
              \/ \E k \in 1 .. Len(cases[i].tasks) : BackendTask(i, k)

Wake == \E i \in 1 .. N :
           \/ WakeCur(i)
           \/ \E k \in 1 .. Len(cases[i].tasks) : WakeTask(i, k)

Join1 == \E i \in 1 .. N : CaseJoin(i)

NextBatch == BatchStart \/ Backend \/ Wake \/ Join1 \/ BatchJoin \/ RunShutdown

----------------------------------------------------------------------------
(* Specifications *)

NAMES == <<"Tanaka", "Suzuki", "Sato", "Ito", "Kato">>
TAGS  == <<"A", "B", "C", "D", "E">>

(* the i-th input of a batch, with findings of the given shape *)
Input(i, raw) ==
    [name |-> NAMES[i], ultrasound_type |-> "Abdomen", raw |-> raw]

BatchRaws(i) == {<<TAGS[i], "K">>}

CaseRaws == {<<"A", "LK">>, <<"A", "LPA+O">>, <<"A", "K+O">>, <<>>, <<" ">>}

IdleGen ==
    /\ g = NewCall(<<>>)
    /\ outcomes = <<>>

IdlePipe ==
    /\ variant = "radiology_agent_system"
    /\ inputs = <<>>
    /\ cases = <<>>
    /\ bpc = "idle"
    /\ artifact = <<>>
    /\ writes = 0
    /\ errs_left = 0
    /\ first_finished = 0
    /\ queued = <<>>

(* SpecBatch: process_batch on every batch of up to MaxCases cases *)
InitBatch ==
    /\ max_retries = DefaultMaxRetries
    /\ initial_delay = DefaultInitialDelay
    /\ cpu_count = 1
    /\ api_key = "key"
    /\ IdleGen
    /\ variant \in Variants
    /\ \E n \in 0 .. MaxCases :
          /\ inputs \in [1 .. n -> UNION {{Input(i, r) : r \in BatchRaws(i)} : i \in 1 .. n}]
          /\ \A i \in 1 .. n : inputs[i].name = NAMES[i]
          /\ cases = [i \in 1 .. n |-> NewCase]
    /\ bpc = "init"
    /\ artifact = <<>>
    /\ writes = 0
    /\ errs_left = MaxBatchErrors
    /\ first_finished = 0
    /\ queued = <<>>

SpecBatch == InitBatch /\ [][NextBatch]_vars

(* SpecPair: process_batch on batches whose generate calls run side by    *)
(* side: two sections of one case, one section of each of two cases, or  *)
(* both                                                                    *)
PairBatches ==
    { <<Input(1, <<"A", "LK">>)>>,
      <<Input(1, <<"A", "K">>), Input(2, <<"B", "K">>)>>,
      <<Input(1, <<"A", "LK">>), Input(2, <<"B", "K">>)>> }

InitPair ==
    /\ max_retries = DefaultMaxRetries
    /\ initial_delay = DefaultInitialDelay
    /\ cpu_count = 1
    /\ api_key = "key"
    /\ IdleGen
    /\ variant \in Variants
    /\ inputs \in PairBatches
    /\ cases = [i \in 1 .. Len(inputs) |-> NewCase]
    /\ bpc = "init"
    /\ artifact = <<>>
    /\ writes = 0
    /\ errs_left = MaxPairErrors
    /\ first_finished = 0
    /\ queued = <<>>

SpecPair == InitPair /\ [][NextBatch]_vars

(* SpecTwin: process_batch on two cases with the same findings text, so    *)
(* that the two pipelines issue the same requests under different          *)
(* schedules                                                               *)
TwinRaws == {<<"A", "LK">>, <<"A", "K+O">>}

InitTwin ==
    /\ max_retries = DefaultMaxRetries
    /\ initial_delay = DefaultInitialDelay
    /\ cpu_count = 1
    /\ api_key = "key"
    /\ IdleGen
    /\ variant \in Variants
    /\ inputs \in {<<Input(1, r), Input(2, r)>> : r \in TwinRaws}
    /\ cases = [i \in 1 .. Len(inputs) |-> NewCase]
    /\ bpc = "init"
    /\ artifact = <<>>
    /\ writes = 0
    /\ errs_left = MaxTwinErrors
    /\ first_finished = 0
    /\ queued = <<>>

SpecTwin == InitTwin /\ [][NextBatch]_vars

(* SpecRecords: process_batch on two cases whose records differ: one with  *)
(* canonical sections, dynamic entries and a note, one with a single       *)
(* section                                                                 *)
RecordBatches ==
    { <<Input(1, <<"A", "LPA+O">>), Input(2, <<"B", "K">>)>>,
      <<Input(1, <<"A", "K+O">>), Input(2, <<"B", "LPA+O">>)>> }

InitRecords ==
    /\ max_retries = DefaultMaxRetries
    /\ initial_delay = DefaultInitialDelay
    /\ cpu_count = 1
    /\ api_key = "key"
    /\ IdleGen
    /\ variant \in Variants
    /\ inputs \in RecordBatches
    /\ cases = [i \in 1 .. Len(inputs) |-> NewCase]
    /\ bpc = "init"
    /\ artifact = <<>>
    /\ writes = 0
    /\ errs_left = MaxRecordErrors
    /\ first_finished = 0
    /\ queued = <<>>

SpecRecords == InitRecords /\ [][NextBatch]_vars

(* main(): the entry point.  Without an API key it reports the error and  *)
(* returns.  radiology_agent_system.py keeps the pasted texts that are not *)
(* blank; radiology_report_generator.py first fetches the findings from    *)
(* remote storage, which may fail.  process_batch runs only on a list that *)
(* is not empty.                                                           *)
ApiKeys == {"None", "", "key"}

MainNoKeyCheck ==
    /\ bpc = "main"
    /\ \E fetched \in BOOLEAN :
          LET list == IF variant = "radiology_agent_system"
                      THEN SelectSeq(inputs, LAMBDA in : Strip(in.raw) # <<>>)
                      ELSE inputs
          IN  IF variant = "radiology_report_generator" /\ ~fetched
              THEN /\ bpc' = "main_error"
                   /\ UNCHANGED <<inputs, cases>>
              ELSE /\ inputs' = list
                   /\ cases' = [i \in 1 .. Len(list) |-> NewCase]
                   /\ bpc' = IF list = <<>> THEN "no_data" ELSE "init"
    /\ UNCHANGED <<cfgVars, genVars, variant, artifact, writes, errs_left,
                   first_finished, queued>>

Main ==
    /\ bpc = "main"
    /\ \E fetched \in BOOLEAN :
          LET list == IF variant = "radiology_agent_system"
                      THEN SelectSeq(inputs, LAMBDA in : Strip(in.raw) # <<>>)
                      ELSE inputs
          IN  IF api_key \in {"None", ""}
              THEN /\ bpc' = "no_key"
                   /\ UNCHANGED <<inputs, cases>>
              ELSE IF variant = "radiology_report_generator" /\ ~fetched
              THEN /\ bpc' = "main_error"
                   /\ UNCHANGED <<inputs, cases>>
              ELSE /\ inputs' = list
                   /\ cases' = [i \in 1 .. Len(list) |-> NewCase]
                   /\ bpc' = IF list = <<>> THEN "no_data" ELSE "init"
    /\ UNCHANGED <<cfgVars, genVars, variant, artifact, writes, errs_left,
                   first_finished, queued>>

(* the texts handed to main: up to two, each findings or blank *)
MainLists ==
    { <<>>,
      <<Input(1, <<" ">>)>>,
      <<Input(1, <<"A", "K">>)>>,
      <<Input(1, <<"A", "K">>), Input(2, <<"B", "K">>)>>,
      <<Input(1, <<" ">>), Input(2, <<"B", "K">>)>> }

InitMain ==
    /\ max_retries = DefaultMaxRetries
    /\ initial_delay = DefaultInitialDelay
    /\ cpu_count = 1
    /\ api_key \in ApiKeys
    /\ IdleGen
    /\ variant \in Variants
    /\ inputs \in MainLists
    /\ cases = [i \in 1 .. Len(inputs) |-> NewCase]
    /\ bpc = "main"
    /\ artifact = <<>>
    /\ writes = 0
    /\ errs_left = MaxMainErrors
    /\ first_finished = 0
    /\ queued = <<>>

NextMain == Main \/ NextBatch

SpecMain == InitMain /\ [][NextMain]_vars

(* SpecCase: one process_patient_async awaited on its own *)
InitCase ==
    /\ max_retries = DefaultMaxRetries
    /\ initial_delay = DefaultInitialDelay
    /\ cpu_count = 1
    /\ api_key = "key"
    /\ IdleGen
    /\ variant \in Variants
    /\ inputs \in {<<Input(1, r)>> : r \in CaseRaws}
    /\ cases = <<NewCase>>
    /\ bpc = "idle"
    /\ artifact = <<>>
    /\ writes = 0
    /\ errs_left = MaxCaseErrors
    /\ first_finished = 0
    /\ queued = <<>>

PatientStart ==
    /\ bpc = "idle"
    /\ N = 1
    /\ cases[1].pc = "new"
    /\ cases' = <<CaseEnter(cases[1], variant, inputs[1], max_retries)>>
    /\ first_finished' = NoteFinished(cases, cases')
    /\ queued' = Requeue(queued, cases, cases')
    /\ UNCHANGED <<cfgVars, genVars, variant, inputs, bpc, artifact, writes,
                   errs_left>>

NextCase == PatientStart \/ Backend \/ Wake \/ Join1

SpecCase == InitCase /\ [][NextCase]_vars

(* SpecDispatch: one process_patient_async whose record has all six       *)
(* canonical sections, on hosts of 1 .. MaxCpus processors                 *)
InitDispatch ==
    /\ max_retries = DefaultMaxRetries
    /\ initial_delay = DefaultInitialDelay
    /\ cpu_count \in 1 .. MaxCpus
    /\ api_key = "key"
    /\ IdleGen
    /\ variant \in Variants
    /\ inputs = <<Input(1, <<"A", "NP">>)>>
    /\ cases = <<NewCase>>
    /\ bpc = "idle"
    /\ artifact = <<>>
    /\ writes = 0
    /\ errs_left = MaxDispatchErrors
    /\ first_finished = 0
    /\ queued = <<>>

SpecDispatch == InitDispatch /\ [][NextCase]_vars

----------------------------------------------------------------------------
(* SpecGen: one generate_response_async call against every backend.        *)

GenPrompts == {<<"prompt">>}

InitGen ==
    /\ max_retries \in 0 .. DefaultMaxRetries
    /\ initial_delay \in DefaultInitialDelay .. MaxInitialDelay
    /\ cpu_count = 1
    /\ api_key = "key"
    /\ g \in {NewCall(p) : p \in GenPrompts}
    /\ outcomes = <<>>
    /\ IdlePipe

GenEnter ==
    /\ g.pc = "start"
    /\ g' = CallEnter(g, max_retries)
    /\ UNCHANGED <<cfgVars, pipeVars, outcomes>>

GenBackend ==
    /\ g.pc = "inflight"
    /\ \E o \in OutcomesFor(g.prompt) :
          /\ g' = CallReturn(g, o, max_retries, initial_delay)
          /\ outcomes' = Append(outcomes, o)
    /\ UNCHANGED <<cfgVars, pipeVars>>

GenWake ==
    /\ g.pc = "sleeping"
    /\ g' = CallWake(g, max_retries)
    /\ UNCHANGED <<cfgVars, pipeVars, outcomes>>

NextGen == GenEnter \/ GenBackend \/ GenWake

SpecGen == InitGen /\ [][NextGen]_vars

----------------------------------------------------------------------------
(* Fair scheduling.  The event loop runs every task that is ready, every   *)
(* sleep ends, and every backend call returns: each step that stays        *)
(* possible is eventually taken.                                           *)

FairBatch ==
    /\ WF_vars(BatchStart)
    /\ WF_vars(Backend)
    /\ WF_vars(Wake)
    /\ WF_vars(Join1)
    /\ WF_vars(BatchJoin)
    /\ WF_vars(RunShutdown)

(* LivePair: the batches of SpecPair under fair scheduling *)
LivePair == InitPair /\ [][NextBatch]_vars /\ FairBatch

FairGen == WF_vars(GenEnter) /\ WF_vars(GenBackend) /\ WF_vars(GenWake)

(* one generate_response_async call under fair scheduling *)
LiveGen == InitGen /\ [][NextGen]_vars /\ FairGen

----------------------------------------------------------------------------
(* Error classes of the specification, by the handler's precedence. *)

IsErr(o) == o.kind = "err"
RateLimited(o) == IsErr(o) /\ o.rate
TransientConnectivity(o) == IsErr(o) /\ ~o.rate /\ o.conn
ContentPolicyBlocked(o) == IsErr(o) /\ ~o.rate /\ ~o.conn /\ o.policy
OtherError(o) == IsErr(o) /\ ~o.rate /\ ~o.conn /\ ~o.policy

(* The delays initial, 2*initial, 4*initial, ... of k consecutive sleeps. *)
Backoff(k) == [i \in 1 .. k |-> initial_delay * Pow2(i - 1)]

NumOutcomes == Len(outcomes)

(* C1: whatever the backend does on each attempt, the call returns a text  *)
(* (the backend's reply or one of the fallback texts) and never raises.    *)
Thm_C1_NeverRaises ==
    /\ g.pc # "raised"
    /\ g.pc = "done" => g.result \in Fallbacks \cup {Reply(g.prompt)}

Wit_C1_NeverRaises ==
    /\ g.pc = "done"
    /\ NumOutcomes = 3
    /\ OtherError(outcomes[3])
    /\ g.result = FB_GENERIC

(* C6: RateLimited on the first k calls and success on call k+1 gives      *)
(* exactly k+1 backend calls, k sleeps of initial * 2^i (i = 0..k-1) in    *)
(* that order, and the successful text as the result.                      *)
Thm_C6_RetrySuccess ==
    (/\ NumOutcomes >= 1
     /\ outcomes[NumOutcomes] = Ok
     /\ \A i \in 1 .. NumOutcomes - 1 : RateLimited(outcomes[i]))
    => /\ g.pc = "done"
       /\ g.calls = NumOutcomes
       /\ g.sleeps = Backoff(NumOutcomes - 1)
       /\ g.result = Reply(g.prompt)

Wit_C6_RetrySuccess ==
    /\ NumOutcomes = 4
    /\ outcomes[4] = Ok
    /\ \A i \in 1 .. 3 : RateLimited(outcomes[i])
    /\ g.pc = "done"
    /\ initial_delay = 2
    /\ g.sleeps = <<2, 4, 8>>

(* C7: when every backend call fails with RateLimited the call makes       *)
(* exactly max_retries backend calls, sleeps only between them, and        *)
(* returns the rate-limit fallback.                                        *)
Thm_C7_RetryExhaustion ==
    /\ g.calls <= max_retries
    /\ (/\ NumOutcomes >= 1
        /\ \A i \in 1 .. NumOutcomes : RateLimited(outcomes[i]))
       => /\ g.pc = "done" <=> NumOutcomes = max_retries
          /\ g.pc = "done" =>
                /\ g.calls = max_retries
                /\ g.sleeps = Backoff(max_retries - 1)
                /\ g.result = FB_RATE
                /\ g.result # Reply(g.prompt)

Wit_C7_RetryExhaustion ==
    /\ max_retries = DefaultMaxRetries
    /\ g.pc = "done"
    /\ NumOutcomes = DefaultMaxRetries
    /\ \A i \in 1 .. NumOutcomes : RateLimited(outcomes[i])
    /\ g.result = FB_RATE

(* C8: the first ContentPolicyBlocked failure ends the call at once: no    *)
(* further backend call, no sleep after it, content-policy fallback.       *)
Thm_C8_PolicyShortCircuit ==
    \A i \in 1 .. NumOutcomes :
        ContentPolicyBlocked(outcomes[i]) =>
            /\ i = NumOutcomes
            /\ g.pc = "done"
            /\ g.calls = i
            /\ Len(g.sleeps) = i - 1
            /\ g.result = FB_POLICY

Wit_C8_PolicyShortCircuit ==
    /\ NumOutcomes = 3
    /\ ContentPolicyBlocked(outcomes[3])
    /\ max_retries = DefaultMaxRetries
    /\ g.pc = "done"

(* C9: exhausting the retries of a retryable class returns a text fixed    *)
(* by that class: the rate-limit fallback for RateLimited, the generic     *)
(* fallback for TransientConnectivity.                                     *)
Exhausted ==
    /\ g.pc = "done"
    /\ max_retries >= 1
    /\ NumOutcomes = max_retries

Claim_C9_CategoryFallback ==
    /\ (Exhausted /\ \A i \in 1 .. NumOutcomes : RateLimited(outcomes[i]))
          => g.result = FB_RATE
    /\ (Exhausted /\ \A i \in 1 .. NumOutcomes : TransientConnectivity(outcomes[i]))
          => g.result = FB_GENERIC

(* C10: an error of class Other (or MalformedOutput, which matches none of *)
(* the handler's tests either) is not retried: generic fallback right      *)
(* after that attempt, no further call, no sleep after it.                 *)
Thm_C10_OtherNotRetried ==
    \A i \in 1 .. NumOutcomes :
        OtherError(outcomes[i]) =>
            /\ i = NumOutcomes
            /\ g.pc = "done"
            /\ g.calls = i
            /\ Len(g.sleeps) = i - 1
            /\ g.result = FB_GENERIC

Wit_C10_OtherNotRetried ==
    /\ NumOutcomes = 1
    /\ OtherError(outcomes[1])
    /\ max_retries = DefaultMaxRetries
    /\ g.calls = 1
    /\ g.sleeps = <<>>
    /\ g.result = FB_GENERIC

Retryable(o) == RateLimited(o) \/ TransientConnectivity(o)

(* C11: RateLimited and TransientConnectivity failures draw on one attempt *)
(* budget: however the two classes interleave, the call makes at most      *)
(* max_retries backend calls, the sleep after failed attempt a (0-based)   *)
(* lasts initial_delay * 2^a, and no sleep follows the final attempt.      *)
Thm_C11_SharedBudget ==
    (\A i \in 1 .. NumOutcomes : Retryable(outcomes[i])) =>
        /\ g.calls <= max_retries
        /\ NumOutcomes <= max_retries
        /\ Len(g.sleeps) <= max_retries - 1 \/ g.sleeps = <<>>
        /\ \A a \in 0 .. NumOutcomes - 1 :
              IF a < max_retries - 1
              THEN /\ Len(g.sleeps) >= a + 1
                   /\ g.sleeps[a + 1] = initial_delay * Pow2(a)
              ELSE /\ Len(g.sleeps) = a
                   /\ g.pc = "done"
                   /\ g.calls = max_retries
        /\ Len(g.sleeps) <= NumOutcomes

Wit_C11_SharedBudget ==
    /\ max_retries = DefaultMaxRetries
    /\ initial_delay = DefaultInitialDelay
    /\ NumOutcomes = DefaultMaxRetries
    /\ RateLimited(outcomes[1]) /\ TransientConnectivity(outcomes[2])
    /\ TransientConnectivity(outcomes[3]) /\ RateLimited(outcomes[4])
    /\ TransientConnectivity(outcomes[5])
    /\ g.pc = "done"
    /\ g.calls = 5
    /\ g.sleeps = <<1, 2, 4, 8>>


----------------------------------------------------------------------------
(* Claims about the case pipeline and the batch *)

Mentions(t, tok) == \E i \in 1 .. Len(t) : t[i] = tok

(* part occurs in t as a run of consecutive tokens *)
Contains(t, part) ==
    \E i \in 0 .. Len(t) - Len(part) :
        \A j \in 1 .. Len(part) : t[i + j] = part[j]

(* the pieces of t between occurrences of the token sep *)
RECURSIVE SplitOn(_, _)
SplitOn(t, sep) ==
    IF ~Mentions(t, sep) THEN <<t>>
    ELSE LET i == CHOOSE x \in 1 .. Len(t) :
                     t[x] = sep /\ \A y \in 1 .. x - 1 : t[y] # sep
         IN  <<SubSeq(t, 1, i - 1)>> \o SplitOn(SubSeq(t, i + 1, Len(t)), sep)

TheCase == cases[1]

SectionsWithText(info) == SelectSeq(CanonicalKeys, LAMBDA k : HasText(info[k]))

OthersWithText(info) ==
    SelectSeq(info.others, LAMBDA e : HasText(Get(e, "findings", <<>>)))

(* t is the outcome of the call made for a section: a fallback, or a reply *)
(* to a request naming that organ and carrying its findings                *)
IsTextFor(t, organ, findings) ==
    \/ t \in Fallbacks
    \/ /\ t # <<>>
       /\ Head(t) = "reply to"
       /\ Contains(t, organ)
       /\ Contains(t, findings)

Aggregated(c) == c.pc \in {"impression", "done"}

(* C2: in the aggregated document the section texts stand in canonical     *)
(* order, then the dynamic sections in discovery order, whatever the order *)
(* in which the concurrent calls returned.                                 *)
Thm_C2_SectionOrder ==
    (N = 1 /\ Aggregated(TheCase)) =>
        LET c    == TheCase
            keys == SectionsWithText(c.info)
            oth  == OthersWithText(c.info)
            doc  == c.organ_reports
        IN  /\ Len(doc) = Len(keys) + Len(oth)
            /\ \A p \in 1 .. Len(keys) :
                  IsTextFor(doc[p], <<OrganPhrase(variant, keys[p])>>, c.info[keys[p]])
            /\ \A q \in 1 .. Len(oth) :
                  IsTextFor(doc[Len(keys) + q],
                            Get(oth[q], "organ", <<"Unknown">>), oth[q].findings)
            /\ Contains(c.cur.prompt, Join(doc, <<"\n\n">>))
            /\ c.pc = "done" => Contains(c.report, Join(doc, <<"\n\n">>))

Wit_C2_SectionOrder ==
    /\ N = 1
    /\ TheCase.pc = "done"
    /\ TheCase.order = <<"aorta", "pancreas", "liver">>
    /\ Len(TheCase.organ_reports) = 5
    /\ \A p \in 1 .. 5 : TheCase.organ_reports[p] \notin Fallbacks

Dispatched(c) == c.pc \in {"organs", "others", "impression", "done"}

BlankSections(info) == {k \in DOMAIN EmptyPatientInfo \ {"others", "comment"} :
                           ~HasText(info[k])}

BlankOthers(info) ==
    {j \in 1 .. Len(info.others) : ~HasText(Get(info.others[j], "findings", <<>>))}

OrganName(entry) == Get(entry, "organ", <<"Unknown">>)

(* every request the case has in hand: of its section tasks and of the     *)
(* call it awaits itself                                                   *)
RequestsOf(c) == {c.tasks[k].call.prompt : k \in 1 .. Len(c.tasks)} \cup {c.cur.prompt}

(* C13: a canonical section whose text is empty or blank, and a dynamic    *)
(* entry whose findings are empty or blank, gets no backend call and no    *)
(* text in the aggregated document; the texts of the other sections stand  *)
(* next to each other, with no empty slot in between.                      *)
Thm_C13_BlankSectionsSkipped ==
    (N = 1 /\ Dispatched(TheCase)) =>
        LET c == TheCase IN
        /\ \A key \in BlankSections(c.info) :
              /\ \A k \in 1 .. Len(c.tasks) : c.tasks[k].key # key
              /\ \A p \in RequestsOf(c) : ~Mentions(p, OrganPhrase(variant, key))
              /\ \A p \in 1 .. Len(c.organ_reports) :
                    ~Mentions(c.organ_reports[p], OrganPhrase(variant, key))
        /\ \A j \in BlankOthers(c.info) :
              /\ c.pc = "others" => c.oidx # j
              /\ \A p \in RequestsOf(c) : ~Contains(p, OrganName(c.info.others[j]))
              /\ \A p \in 1 .. Len(c.organ_reports) :
                    ~Contains(c.organ_reports[p], OrganName(c.info.others[j]))
        /\ Len(c.tasks) = Len(SectionsWithText(c.info))
        /\ Aggregated(c) =>
              /\ Len(c.organ_reports) =
                    Len(SectionsWithText(c.info)) + Len(OthersWithText(c.info))
              /\ \A p \in 1 .. Len(c.organ_reports) : c.organ_reports[p] # <<>>
              /\ ~Contains(Join(c.organ_reports, <<"\n\n">>), <<"\n\n", "\n\n">>)

Wit_C13_BlankSectionsSkipped ==
    /\ N = 1
    /\ TheCase.pc = "done"
    /\ TheCase.info.gb = <<" ">>
    /\ TheCase.info.spleen = <<>>
    /\ BlankOthers(TheCase.info) = {2}
    /\ [k \in 1 .. Len(TheCase.tasks) |-> TheCase.tasks[k].key]
          = <<"liver", "pancreas", "aorta">>
    /\ Len(TheCase.organ_reports) = 5
    /\ Contains(TheCase.organ_reports[4], <<"Thyroid">>)
    /\ Contains(TheCase.organ_reports[5], <<"Unknown">>)

(* the dynamic entries with text among the first j entries *)
OthersDoneBefore(info, j) ==
    Cardinality({k \in 1 .. Len(info.others) :
                    k < j /\ HasText(Get(info.others[k], "findings", <<>>))})

(* t is what the call of request p returned: a reply to it or a fallback *)
IsResultOf(t, p) ==
    \/ t \in Fallbacks
    \/ \E f \in FormsFor(p) : t = BackendText(p, f)

(* C14: the section texts joined into the aggregated document are as many  *)
(* as the sections (canonical and dynamic) with text: each dispatched task *)
(* contributes exactly one result, its reply or its fallback, and none is  *)
(* lost or doubled.                                                        *)
Thm_C14_OneResultPerTask ==
    (N = 1 /\ TheCase.pc \in {"others", "impression", "done"}) =>
        LET c   == TheCase
            doc == c.organ_reports
            nc  == Len(SectionsWithText(c.info))
        IN  /\ Len(c.tasks) = nc
            /\ Len(doc) >= nc
            /\ \A k \in 1 .. nc :
                  /\ c.tasks[k].call.pc = "done"
                  /\ doc[k] = c.tasks[k].call.result
                  /\ IsResultOf(doc[k], c.tasks[k].call.prompt)
            /\ c.pc = "others" => Len(doc) = nc + OthersDoneBefore(c.info, c.oidx)
            /\ Aggregated(c) =>
                  /\ Len(doc) = nc + Len(OthersWithText(c.info))
                  /\ \A q \in 1 .. Len(OthersWithText(c.info)) :
                        LET e == OthersWithText(c.info)[q] IN
                        IsResultOf(doc[nc + q],
                                   FullPrompt(OTHERS_SYS,
                                       OtherPrompt(OrganName(e), e.findings,
                                                   c.info.comment)))
                  /\ c.cur.prompt = FullPrompt(IMPRESSION_SYS,
                          ImpressionPrompt(Join(doc, <<"\n\n">>), c.info.comment))

Wit_C14_OneResultPerTask ==
    /\ N = 1
    /\ TheCase.pc = "done"
    /\ Len(TheCase.organ_reports) = 5
    /\ TheCase.organ_reports[2] \in Fallbacks
    /\ TheCase.organ_reports[4] \in Fallbacks
    /\ \A p \in {1, 3, 5} : TheCase.organ_reports[p] \notin Fallbacks

SomeSectionFellBack(c) ==
    \/ \E k \in 1 .. Len(c.tasks) : c.tasks[k].call.result \in Fallbacks
    \/ \E p \in 1 .. Len(c.organ_reports) : c.organ_reports[p] \in Fallbacks

(* C16: when the call of one section ends in a fallback text, the failure  *)
(* is not raised to the case: every other section keeps the result of its  *)
(* own backend call, the summarizer is still called with the document, and *)
(* the report is produced with the fallback text at that section's place.  *)
Thm_C16_SectionFallbackIsolated ==
    (N = 1 /\ SomeSectionFellBack(TheCase)) =>
        LET c   == TheCase
            doc == c.organ_reports
            nc  == Len(c.tasks)
            oth == OthersWithText(c.info)
        IN  /\ c.pc \in {"organs", "others", "impression", "done"}
            /\ \A k \in 1 .. nc :
                  (c.tasks[k].call.pc = "done" /\ c.tasks[k].call.result \notin Fallbacks)
                      => c.tasks[k].call.result = Reply(c.tasks[k].call.prompt)
            /\ \A p \in 1 .. Len(doc) :
                  IF p <= nc
                  THEN doc[p] = c.tasks[p].call.result
                  ELSE IsResultOf(doc[p],
                           FullPrompt(OTHERS_SYS,
                               OtherPrompt(OrganName(oth[p - nc]), oth[p - nc].findings,
                                           c.info.comment)))
            /\ Aggregated(c) =>
                  /\ Len(doc) = nc + Len(oth)
                  /\ c.cur.calls >= 1
                  /\ c.cur.prompt = FullPrompt(IMPRESSION_SYS,
                          ImpressionPrompt(Join(doc, <<"\n\n">>), c.info.comment))
            /\ c.pc = "done" =>
                  c.report = FinalReport(variant, inputs[1].ultrasound_type,
                                         Join(doc, <<"\n\n">>), c.cur.result)

Wit_C16_SectionFallbackIsolated ==
    /\ N = 1
    /\ TheCase.pc = "done"
    /\ Len(TheCase.organ_reports) = 5
    /\ TheCase.organ_reports[1] = FB_GENERIC
    /\ \A p \in 2 .. 5 : TheCase.organ_reports[p] \notin Fallbacks
    /\ TheCase.organ_reports[2] = Reply(TheCase.tasks[2].call.prompt)
    /\ TheCase.cur.result = Reply(TheCase.cur.prompt)
    /\ Contains(TheCase.report, FB_GENERIC \o <<"\n\n">> \o TheCase.organ_reports[2])

(* the raw text of the case is empty or holds only whitespace *)
BlankInput(input) == input.raw = <<>> \/ Strip(input.raw) = <<>>

(* C17: split on an empty or whitespace-only raw text makes no backend     *)
(* call and returns the all-empty record: every canonical key empty, no    *)
(* dynamic section, empty note.                                            *)
Claim_C17_SplitEmptyInput ==
    (N = 1 /\ BlankInput(inputs[1]) /\ TheCase.pc # "new") =>
        /\ TheCase.pc \notin {"split", "raised"}
        /\ TheCase.info = EmptyPatientInfo
        /\ TheCase.tasks = <<>>

(* C18: split never raises past its boundary: when its backend call fails, *)
(* ends in a fallback text or returns text holding no JSON object, split   *)
(* returns the all-empty record; otherwise the record of the parsed        *)
(* object.                                                                 *)
Claim_C18_SplitNeverRaises ==
    N = 1 =>
        /\ TheCase.pc # "raised"
        /\ Dispatched(TheCase) =>
              TheCase.info \in {EmptyPatientInfo,
                                MakePatientInfo(SplitObject(inputs[1].raw))}

(* the object a faithful segmentation of the case's raw text holds *)
ParsedObject == SplitObject(inputs[1].raw)

RecordKeys == {"liver", "gb", "pancreas", "spleen", "kidney", "aorta",
               "others", "comment"}

(* C19: the record built from a parsed object has, for each canonical key, *)
(* the object's value or the empty text when the key is missing; for the   *)
(* dynamic list the object's others or the empty list; for the note the    *)
(* object's comment or the empty text; and nothing from any other key.     *)
Thm_C19_RecordFromObject ==
    (/\ N = 1
     /\ Dispatched(TheCase)
     /\ variant = "radiology_agent_system" \/ TheCase.info # EmptyPatientInfo)
    => /\ DOMAIN TheCase.info = RecordKeys
       /\ \A key \in RecordKeys :
             TheCase.info[key] = IF key \in DOMAIN ParsedObject
                                 THEN ParsedObject[key] ELSE <<>>

Wit_C19_RecordFromObject ==
    /\ N = 1
    /\ TheCase.pc = "done"
    /\ DOMAIN ParsedObject = {"kidney", "exam_date", "others"}
    /\ TheCase.info.kidney = <<"A", "renal cyst 10 mm">>
    /\ TheCase.info.liver = <<>>
    /\ TheCase.info.comment = <<>>
    /\ Len(TheCase.info.others) = 2

RawTag(input) == input.raw[1]

(* no call made so far for the case has ended in a fallback text *)
NoFallback(c) ==
    /\ \A k \in 1 .. Len(c.tasks) : c.tasks[k].call.result \notin Fallbacks
    /\ \A p \in 1 .. Len(c.organ_reports) : c.organ_reports[p] \notin Fallbacks
    /\ c.cur.result \notin Fallbacks

(* block is the banner with identifier id followed by report, and carries  *)
(* findings of no case but the one tagged tag                              *)
IsBlockOf(block, id, report, tag) ==
    /\ Len(block) >= 7
    /\ SubSeq(block, 1, 7) = <<BANNER, "\n", "PATIENT", id, "\n", BANNER, "\n\n">>
    /\ SubSeq(block, 8, Len(block)) = report
    /\ \A k \in 1 .. Len(TAGS) : TAGS[k] # tag => ~Mentions(block, TAGS[k])

(* the report holds a section text and a summary made from findings tag *)
Populated(c, tag) ==
    /\ c.pc = "done"
    /\ c.organ_reports # <<>>
    /\ \A p \in 1 .. Len(c.organ_reports) :
          Mentions(c.organ_reports[p], tag) /\ Contains(c.report, c.organ_reports[p])
    /\ Contains(c.report, <<"IMPRESSION:", "\n">> \o c.cur.result)

(* C3: the artifact of a batch of n cases holds exactly n blocks; the i-th *)
(* block carries the identifier of input i and the report made from input  *)
(* i, whatever the order in which the cases finished.                      *)
Thm_C3_BatchOrder ==
    /\ bpc = "done" =>
          LET blocks == SplitOn(artifact, "\n\n\n") IN
          /\ N >= 1
          /\ writes = 1
          /\ Len(blocks) = N
          /\ \A i \in 1 .. N :
                /\ IsBlockOf(blocks[i], Ident(variant, i, inputs[i]),
                             cases[i].report, RawTag(inputs[i]))
                /\ (cases[i].info # EmptyPatientInfo /\ NoFallback(cases[i]))
                      => Populated(cases[i], RawTag(inputs[i]))
    /\ bpc # "done" => artifact = <<>> /\ writes = 0

Wit_C3_BatchOrder ==
    /\ bpc = "done"
    /\ N = 3
    /\ first_finished = 3
    /\ \A i \in 1 .. N : Populated(cases[i], RawTag(inputs[i]))

(* the call q made one step of its own: the backend answered its attempt, *)
(* or its sleep ended                                                      *)
OwnStep(q, q2) ==
    \/ /\ q.pc = "inflight"
       /\ \E o \in OutcomesFor(q.prompt) :
             q2 = CallReturn(q, o, max_retries, initial_delay)
    \/ /\ q.pc = "sleeping"
       /\ q2 = CallWake(q, max_retries)

(* the section calls in flight: <<i, k>> is the k-th task of case i *)
SectionCalls == {ik \in (1 .. N) \X (1 .. Len(CanonicalKeys)) :
                    ik[2] <= Len(cases[ik[1]].tasks)}

(* the count of attempts, the delays and the result of a call *)
Progress(q) == <<q.attempt, q.calls, q.sleeps, q.result, q.pc>>

(* C12: of the generate calls running side by side (sections of one case, *)
(* calls of different cases) every step changes at most one, and changes   *)
(* it by that call's own counter, own delays and own backend outcome: the  *)
(* failures and retries of another call never touch its attempts, delays   *)
(* or result.                                                              *)
Thm_C12_CallsIndependent ==
    [][ /\ \A ik \in SectionCalls :
              LET q  == cases[ik[1]].tasks[ik[2]].call
                  q2 == cases'[ik[1]].tasks[ik[2]].call
              IN  /\ Len(cases'[ik[1]].tasks) = Len(cases[ik[1]].tasks)
                  /\ q2 = q \/ OwnStep(q, q2)
                  /\ \A jl \in SectionCalls :
                        (jl # ik /\ Progress(q2) # Progress(q)) =>
                            cases'[jl[1]].tasks[jl[2]].call = cases[jl[1]].tasks[jl[2]].call
        /\ \A i \in 1 .. N : \A j \in 1 .. N :
              (/\ i # j
               /\ bpc = "gather"
               /\ cases[i].pc \in {"others", "impression"}
               /\ cases[j].pc \in {"organs", "others", "impression"}
               /\ cases'[j] # cases[j])
              => cases'[i] = cases[i]
      ]_vars

Wit_C12_CallsIndependent ==
    /\ N = 2
    /\ Len(cases[1].tasks) = 2 /\ Len(cases[2].tasks) = 1
    /\ cases[1].tasks[1].call.pc = "done"
    /\ cases[1].tasks[1].call.calls = 1
    /\ cases[1].tasks[1].call.sleeps = <<>>
    /\ cases[1].tasks[1].call.result = Reply(cases[1].tasks[1].call.prompt)
    /\ cases[1].tasks[2].call.pc = "done"
    /\ cases[1].tasks[2].call.calls = 2
    /\ cases[1].tasks[2].call.sleeps = <<1>>
    /\ cases[1].tasks[2].call.result = Reply(cases[1].tasks[2].call.prompt)
    /\ cases[1].order = <<"kidney", "liver">>
    /\ cases[2].tasks[1].call.pc = "done"
    /\ cases[2].tasks[1].call.result = FB_GENERIC
    /\ cases[2].tasks[1].call.calls = 1

(* C4: a case pipeline that raises leaves the batch call running: it does  *)
(* not raise, no other pipeline is cancelled, and every input still gets   *)
(* its entry.                                                              *)
Claim_C4_BatchIsolation ==
    N >= 2 =>
        /\ bpc # "raised"
        /\ \A i \in 1 .. N : cases[i].pc # "cancelled"
        /\ (\A i \in 1 .. N : ~Pending(cases[i])) /\ bpc # "gather"
              => Len(SplitOn(artifact, "\n\n\n")) = N

SegmentationFailed(c) ==
    \/ c.pc = "raised"
    \/ Aggregated(c) /\ c.info = EmptyPatientInfo

SegmentationSucceeded(c) ==
    /\ c.pc \in {"organs", "others", "impression", "done", "cancelled"}
    /\ c.info # EmptyPatientInfo

(* C5: three cases, segmentation of the second fails for good, the first   *)
(* and third succeed: the batch ends with three entries in input order,    *)
(* the first and third with their section text and summary, the second     *)
(* without section text.                                                   *)
Claim_C5_ThreeCaseBatch ==
    (/\ N = 3
     /\ bpc \in {"done", "raised"}
     /\ SegmentationFailed(cases[2])
     /\ \A i \in {1, 3} : SegmentationSucceeded(cases[i]) /\ NoFallback(cases[i]))
    => /\ bpc = "done"
       /\ LET blocks == SplitOn(artifact, "\n\n\n") IN
          /\ Len(blocks) = 3
          /\ \A i \in {1, 3} :
                /\ IsBlockOf(blocks[i], Ident(variant, i, inputs[i]),
                             cases[i].report, RawTag(inputs[i]))
                /\ Populated(cases[i], RawTag(inputs[i]))
          /\ cases[2].organ_reports = <<>>
          /\ IsBlockOf(blocks[2], Ident(variant, 2, inputs[2]),
                       cases[2].report, RawTag(inputs[2]))
          /\ ~Mentions(blocks[2], RawTag(inputs[2]))

(* C20: when segmentation yields the all-empty record (it failed for good, *)
(* or the input was empty) process_patient_async does not raise: it        *)
(* dispatches no section task and returns the title, an empty findings     *)
(* body and the IMPRESSION header with the summarizer's output.            *)
Claim_C20_NearEmptyReport ==
    (N = 1 /\ (SegmentationFailed(TheCase) \/ BlankInput(inputs[1]))) =>
        LET c == TheCase IN
        /\ c.pc # "raised"
        /\ (Dispatched(c) /\ c.info = EmptyPatientInfo) =>
              /\ c.tasks = <<>>
              /\ c.organ_reports = <<>>
              /\ c.pc \in {"impression", "done"}
              /\ c.cur.prompt = FullPrompt(IMPRESSION_SYS, ImpressionPrompt(<<>>, <<>>))
              /\ c.pc = "done" =>
                    c.report = Title(variant, inputs[1].ultrasound_type)
                                 \o <<"\n\n", "\n\n", "IMPRESSION:", "\n">>
                                 \o c.cur.result \o <<"\n">>

(* C21: without an API key the run stops before any processing: no backend *)
(* call is made, no case is processed and no artifact is written.          *)
Thm_C21_MissingCredentials ==
    (api_key \in {"None", ""}) =>
        /\ bpc \in {"main", "no_key"}
        /\ \A i \in 1 .. N : cases[i] = NewCase
        /\ queued = <<>>
        /\ errs_left = MaxMainErrors
        /\ artifact = <<>>
        /\ writes = 0

Wit_C21_MissingCredentials ==
    /\ api_key = "None"
    /\ bpc = "no_key"
    /\ Len(inputs) = 2
    /\ \A i \in 1 .. 2 : ~BlankInput(inputs[i])

(* the length of the first p texts of doc with one separator after each *)
RECURSIVE LenThrough(_, _)
LenThrough(doc, p) == IF p = 0 THEN 0 ELSE LenThrough(doc, p - 1) + Len(doc[p]) + 1

HeaderAt(report) == {i \in 1 .. Len(report) : report[i] = "IMPRESSION:"}

Wit_C22_EmptyBody ==
    /\ N = 1
    /\ TheCase.pc = "done"
    /\ TheCase.organ_reports = <<>>
    /\ SubSeq(TheCase.report, 1, 5) = <<"RADIOLOGY REPORT", "\n\n", "\n\n", "IMPRESSION:", "\n">>

(* the findings a section request carries: the text between the opening    *)
(* line and the closing instruction                                        *)
FindingsIn(prompt) ==
    LET a == CHOOSE i \in 1 .. Len(prompt) : prompt[i] = "based on these findings:"
        b == CHOOSE i \in 1 .. Len(prompt) :
                 prompt[i] = "Provide only the report text, no headers or labels."
    IN  SubSeq(prompt, a + 1, b - 1)

AllNormal(info) ==
    /\ \A k \in 1 .. Len(CanonicalKeys) : info[CanonicalKeys[k]] = <<"NP">>
    /\ info.others = <<>>
    /\ info.comment = <<>>

Occurrences(t, tok) == Cardinality({i \in 1 .. Len(t) : t[i] = tok})

(* C23: for a record whose six canonical sections all read NP, without     *)
(* dynamic entries and without note, exactly six section tasks are         *)
(* dispatched, one per canonical section in order, and the findings each   *)
(* request carries are NP; when the summarizer call returns the sentence   *)
(* for no significant findings, the final report holds it exactly once.    *)
Thm_C23_AllNormalCase ==
    (N = 1 /\ AllNormal(TheCase.info) /\ Dispatched(TheCase)) =>
        LET c == TheCase IN
        /\ Len(c.tasks) = 6
        /\ \A k \in 1 .. 6 :
              /\ c.tasks[k].key = CanonicalKeys[k]
              /\ c.tasks[k].call.calls >= 1
              /\ FindingsIn(c.tasks[k].call.prompt) = <<"NP">>
        /\ c.pc \in {"impression", "done"} => Len(c.organ_reports) = 6
        /\ (c.pc = "done" /\ c.cur.result = UNREMARKABLE) =>
              /\ Occurrences(c.report, UNREMARKABLE[1]) = 1
              /\ c.report[Len(c.report) - 1] = UNREMARKABLE[1]

Wit_C23_AllNormalCase ==
    /\ N = 1
    /\ AllNormal(TheCase.info)
    /\ TheCase.pc = "done"
    /\ Len(TheCase.tasks) = 6
    /\ NoFallback(TheCase)
    /\ TheCase.cur.result = UNREMARKABLE
    /\ Occurrences(TheCase.report, UNREMARKABLE[1]) = 1

(* the requests of case c that were answered, each with the text its call  *)
(* returned                                                                *)
AnswerPairs(c) ==
    LET nc == Len(c.tasks) IN
    {<<c.tasks[k].call.prompt, c.tasks[k].call.result>> : k \in 1 .. nc}
    \cup {<<FullPrompt(OTHERS_SYS,
                OtherPrompt(OrganName(OthersWithText(c.info)[q]),
                            OthersWithText(c.info)[q].findings, c.info.comment)),
            c.organ_reports[nc + q]>> : q \in 1 .. Len(c.organ_reports) - nc}
    \cup (IF c.pc = "done" THEN {<<c.cur.prompt, c.cur.result>>} ELSE {})

(* every request has one answer *)
Functional(S) == \A a \in S : \A b \in S : a[1] = b[1] => a[2] = b[2]

TwoRuns ==
    /\ N = 2
    /\ Aggregated(cases[1])
    /\ Aggregated(cases[2])
    /\ cases[1].info = cases[2].info

(* C24: two runs of dispatch and aggregation on the same record, in which  *)
(* every request got the same answer whenever it was made, end with the    *)
(* same aggregated document, and with the same report once both are done,  *)
(* whatever the order in which their calls were scheduled and returned.    *)
Thm_C24_ScheduleIndependent ==
    (TwoRuns /\ Functional(AnswerPairs(cases[1]) \cup AnswerPairs(cases[2]))) =>
        /\ cases[1].organ_reports = cases[2].organ_reports
        /\ (cases[1].pc = "done" /\ cases[2].pc = "done") =>
              cases[1].report = cases[2].report

Wit_C24_ScheduleIndependent ==
    /\ TwoRuns
    /\ Functional(AnswerPairs(cases[1]) \cup AnswerPairs(cases[2]))
    /\ cases[1].pc = "done"
    /\ cases[2].pc = "done"
    /\ Len(cases[1].tasks) = 2
    /\ cases[1].order # cases[2].order
    /\ cases[1].tasks[1].call.result \in Fallbacks
    /\ cases[1].report = cases[2].report

(* the calls of case i that are in flight: issued and not yet returned *)
InFlight(i) == {id \in Submitted(cases) : id[1] = i}

(* C25: a backend call that has not returned is never abandoned: no step   *)
(* cancels the task that awaits it, and the steps of the other calls and   *)
(* cases leave it and its case as they are.                                *)
Claim_C25_StalledCallKept ==
    [][\A i \in 1 .. N :
          InFlight(i) # {} =>
              /\ cases'[i].pc # "cancelled"
              /\ \A id \in InFlight(i) :
                    \/ CallAt(cases', id) = CallAt(cases, id)
                    \/ cases'[i] # cases[i] /\ \A j \in 1 .. N : j # i => cases'[j] = cases[j]]_vars

(* the same, in the copy whose segmentation never raises *)
StalledCallKeptFailSoft ==
    [][variant = "radiology_report_generator" =>
          \A i \in 1 .. N : InFlight(i) # {} => cases'[i].pc # "cancelled"]_vars

(* the sections of a record that get a call: canonical and dynamic *)
Eligible(info) == Len(SectionsWithText(info)) + Len(OthersWithText(info))

(* the calls case c has started by the time it awaits its section tasks *)
Launched(c) == Cardinality({k \in 1 .. Len(c.tasks) : c.tasks[k].call.calls >= 1})

(* C26: every case of the batch is started by the same step, a case that   *)
(* awaits its section calls has started the call of every eligible section *)
(* of its record, canonical and dynamic, and no call ever waits for        *)
(* admission.                                                              *)
Claim_C26_UnboundedLaunch ==
    /\ \A i \in 1 .. N : \A j \in 1 .. N :
          cases[i].pc = "new" <=> cases[j].pc = "new"
    /\ \A i \in 1 .. N :
          cases[i].pc = "organs" => Launched(cases[i]) = Eligible(cases[i].info)
    /\ queued = <<>>

(* the part of C26 that holds: the canonical sections are all started *)
CanonicalLaunched ==
    /\ \A i \in 1 .. N : \A j \in 1 .. N :
          cases[i].pc = "new" <=> cases[j].pc = "new"
    /\ \A i \in 1 .. N :
          cases[i].pc = "organs" =>
              Launched(cases[i]) = Len(SectionsWithText(cases[i].info))

(* no call waits for a worker thread *)
NothingQueued == queued = <<>>

(* the records split can return for the i-th input: the one built from the *)
(* parsed object, or the empty one                                         *)
Segmented(i) == {MakePatientInfo(SplitObject(inputs[i].raw)), EmptyPatientInfo}

(* every request case c has made after segmentation is built from the      *)
(* fields of its own record                                                *)
OwnRequests(c, v) ==
    /\ \A k \in 1 .. Len(c.tasks) :
          c.tasks[k].call.prompt =
              FullPrompt(SystemPrompt(c.tasks[k].key),
                         SectionPrompt(v, c.tasks[k].key, c.info[c.tasks[k].key]))
    /\ c.pc = "others" =>
          c.cur.prompt =
              FullPrompt(OTHERS_SYS,
                         OtherPrompt(OrganName(c.info.others[c.oidx]),
                                     Get(c.info.others[c.oidx], "findings", <<>>),
                                     c.info.comment))
    /\ Aggregated(c) =>
          c.cur.prompt =
              FullPrompt(IMPRESSION_SYS,
                         ImpressionPrompt(Join(c.organ_reports, <<"\n\n">>),
                                          c.info.comment))

(* C27: once split has returned, no step changes the record of a case; the *)
(* record is the one the segmenter produced for that case's input; the     *)
(* section, dynamic and summarizer requests of the case are built from its *)
(* fields; and a step of one case's pipeline leaves every other case as it *)
(* is.                                                                     *)
Thm_C27_RecordFrame ==
    [][\A i \in 1 .. N :
          /\ cases[i].pc \notin {"new", "split"} => cases'[i].info = cases[i].info
          /\ cases'[i].info \in Segmented(i)
          /\ Dispatched(cases'[i]) => OwnRequests(cases'[i], variant)
          /\ (bpc = "gather" /\ cases'[i] # cases[i]) =>
                \A j \in 1 .. N : j # i => cases'[j] = cases[j]]_vars

Wit_C27_RecordFrame ==
    /\ N = 2
    /\ cases[1].pc = "done"
    /\ cases[2].pc = "done"
    /\ Len(cases[1].info.others) = 3
    /\ cases[1].info.comment # <<>>
    /\ cases[1].info = MakePatientInfo(SplitObject(inputs[1].raw))
    /\ cases[2].info = MakePatientInfo(SplitObject(inputs[2].raw))
    /\ cases[1].info # cases[2].info

(* the summarizer call of case c has been made *)
Summarized(c) == IsImpressionPrompt(c.cur.prompt) /\ c.cur.calls >= 1

(* every call of a phase has returned before a call of the next starts:    *)
(* segmentation, canonical sections, dynamic sections, summarizer          *)
PhasesOrdered ==
    \A i \in 1 .. N :
        LET c == cases[i] IN
        /\ (c.pc \in {"new", "split"}) =>
              c.tasks = <<>> /\ c.organ_reports = <<>> /\ ~Summarized(c)
        /\ c.pc = "organs" =>
              /\ <<i, 0>> \notin Submitted(cases)
              /\ ~Summarized(c)
        /\ c.pc = "others" =>
              /\ \A k \in 1 .. Len(c.tasks) : c.tasks[k].call.pc = "done"
              /\ ~Summarized(c)
        /\ Summarized(c) =>
              /\ Aggregated(c) \/ c.pc = "cancelled"
              /\ \A k \in 1 .. Len(c.tasks) : c.tasks[k].call.pc = "done"
              /\ Len(c.organ_reports) = Eligible(c.info)
              /\ c.cur.prompt =
                    FullPrompt(IMPRESSION_SYS,
                               ImpressionPrompt(Join(c.organ_reports, <<"\n\n">>),
                                                c.info.comment))

(* a case that has ended has made its summarizer call, and that call has   *)
(* returned                                                                *)
SummarizedWhenEnded ==
    \A i \in 1 .. N :
        (cases[i].pc # "new" /\ ~Pending(cases[i])) =>
            Summarized(cases[i]) /\ cases[i].cur.pc = "done"

(* once made, the summarizer call stays the last generate call of the case *)
SummarizedOnce ==
    [][\A i \in 1 .. N :
          Summarized(cases[i]) => cases'[i].cur.prompt = cases[i].cur.prompt]_vars

(* C28: in every case the phases are strictly ordered: the segmentation    *)
(* call has returned before a section call starts, every canonical and     *)
(* dynamic section call has returned before the summarizer call starts,    *)
(* and every case makes the summarizer call, with the aggregated document  *)
(* and the note, also when no section was dispatched.                      *)
Claim_C28_PhaseOrder == PhasesOrdered /\ SummarizedWhenEnded

(* the same in the copy whose segmentation never raises *)
PhaseOrderFailSoft ==
    variant = "radiology_report_generator" => Claim_C28_PhaseOrder

(* the summarizer call of a case without any section *)
SummarizedEmptyRecord ==
    /\ N = 1
    /\ TheCase.pc = "done"
    /\ TheCase.info = EmptyPatientInfo
    /\ Summarized(TheCase)

(* the position of line tok in request t *)
At(t, tok) == CHOOSE i \in 1 .. Len(t) : t[i] = tok

(* the text of request t between the lines from and to *)
Between(t, from, to) == SubSeq(t, At(t, from) + 1, At(t, to) - 1)

NOTE_OPEN == "Additional Comments: - Look at the part of the additional comments section that is relevant to"

(* the label, the findings and the note a dynamic-section request carries *)
LabelOf(t) == Between(t, "Generate a radiology report section for", "based on these findings:")
FindingsOf(t) == Between(t, "based on these findings:", NOTE_OPEN)
NoteOf(t) == Between(t, "findings:", "Provide only the report text.")

(* C29: the request of every dynamic-section call carries the label of its *)
(* entry (Unknown when the entry has none), the findings of the entry and  *)
(* the note of the same case, in a place of its own also when the note is  *)
(* empty; the request of a canonical-section call has no place for the     *)
(* note and does not hold it.                                              *)
Thm_C29_NoteInDynamicOnly ==
    \A i \in 1 .. N :
        LET c == cases[i] IN
        /\ c.pc = "others" =>
              LET e == c.info.others[c.oidx]
                  t == c.cur.prompt
              IN  /\ Mentions(t, NOTE_OPEN)
                  /\ LabelOf(t) = (IF "organ" \in DOMAIN e THEN e.organ ELSE <<"Unknown">>)
                  /\ FindingsOf(t) = e.findings
                  /\ NoteOf(t) = c.info.comment
        /\ \A k \in 1 .. Len(c.tasks) :
              LET t == c.tasks[k].call.prompt IN
              /\ ~Mentions(t, NOTE_OPEN)
              /\ FindingsIn(t) = c.info[c.tasks[k].key]
              /\ c.info.comment # <<>> => ~Contains(t, c.info.comment)

Wit_C29_NoteInDynamicOnly ==
    /\ N = 1
    /\ TheCase.pc = "others"
    /\ Len(TheCase.tasks) = 3
    /\ TheCase.info.comment # <<>>
    /\ NoteOf(TheCase.cur.prompt) = TheCase.info.comment
    /\ "organ" \notin DOMAIN TheCase.info.others[TheCase.oidx]

(* a dynamic-section request of a case without note *)
Wit_C29_EmptyNote ==
    /\ N = 1
    /\ TheCase.pc = "others"
    /\ TheCase.info.comment = <<>>
    /\ NoteOf(TheCase.cur.prompt) = <<>>
    /\ LabelOf(TheCase.cur.prompt) = <<"Uterus">>

(* the backend calls of case i in flight for canonical sections, and for   *)
(* the call the case awaits itself                                         *)
CanonicalInFlight(i) == {id \in InFlight(i) : id[2] # 0}

(* C30: while a dynamic-section call of a case is pending, every canonical *)
(* call of the case has returned and so has the call of every eligible     *)
(* dynamic entry before it in the list, and no other call of the case is   *)
(* in flight; a case never has more calls in flight than it has canonical  *)
(* sections with text, hence never more than six.                          *)
Thm_C30_DynamicSequential ==
    \A i \in 1 .. N :
        LET c  == cases[i]
            nc == Len(SectionsWithText(c.info))
        IN  /\ c.pc = "others" =>
                  /\ \A k \in 1 .. Len(c.tasks) : c.tasks[k].call.pc = "done"
                  /\ CanonicalInFlight(i) = {}
                  /\ InFlight(i) \subseteq {<<i, 0>>}
                  /\ HasText(Get(c.info.others[c.oidx], "findings", <<>>))
                  /\ Len(c.organ_reports) = nc + OthersDoneBefore(c.info, c.oidx)
            /\ c.pc = "organs" => Cardinality(InFlight(i)) <= nc
            /\ c.pc # "organs" => Cardinality(InFlight(i)) <= 1
            /\ nc <= Len(CanonicalKeys)
            /\ Cardinality(InFlight(i)) <= 6

(* the second eligible dynamic entry is called after the first returned *)
Wit_C30_DynamicSequential ==
    /\ N = 1
    /\ TheCase.pc = "others"
    /\ TheCase.oidx = 3
    /\ TheCase.cur.pc = "inflight"
    /\ Len(TheCase.tasks) = 3
    /\ Len(TheCase.organ_reports) = 4
    /\ TheCase.order # <<"liver", "pancreas", "aorta">>

(* six calls of a case in flight at once *)
SixInFlight ==
    /\ N = 1
    /\ Cardinality(InFlight(1)) = 6

(* the batch call has returned with its artifact written *)
BatchReturned ==
    /\ bpc = "done"
    /\ writes = 1
    /\ \A i \in 1 .. N : cases[i].pc = "done"

(* C31: when every backend call returns and the tasks are scheduled        *)
(* fairly, every case pipeline eventually produces its report and          *)
(* process_batch_async eventually writes the artifact and returns.         *)
Claim_C31_Terminates == <>BatchReturned

(* a generate call that has not returned can take a step: its backend      *)
(* call is running or waits for a worker held by a running call, or its    *)
(* sleep is about to end; and it is within its max_retries attempts        *)
CallCanStep(id) ==
    LET c == CallAt(cases, id) IN
    /\ c.pc \in {"inflight", "sleeping"}
    /\ c.calls <= max_retries
    /\ c.pc = "inflight" =>
          \/ OnWorker(id)
          \/ \E other \in Submitted(cases) : OnWorker(other)

(* no task is stuck: while the batch runs, every pending case awaits a     *)
(* call that can take a step or a gather that is ready, and when no case   *)
(* is pending the batch call itself returns or raises                      *)
NoTaskStuck ==
    bpc = "gather" =>
        \A i \in 1 .. N :
            LET c == cases[i] IN
            /\ c.pc # "new"
            /\ c.pc \in {"split", "others", "impression"} => CallCanStep(<<i, 0>>)
            /\ c.pc = "organs" =>
                  \/ GatherReady(c)
                  \/ \E k \in 1 .. Len(c.tasks) : CallCanStep(<<i, k>>)

(* the batch returns in every fair run in which no pipeline raises *)
ReturnsUnlessRaised == <>(BatchReturned \/ bpc = "raised")

(* every generate call eventually returns a text *)
GenerateReturns == <>(g.pc = "done" /\ g.result # <<>>)

(* C32: process_batch_async on an empty list does not raise, starts no     *)
(* case and no backend call, and once it has run it has written an         *)
(* artifact without any block.                                             *)
Claim_C32_EmptyBatch ==
    N = 0 =>
        /\ cases = <<>>
        /\ Submitted(cases) = {}
        /\ bpc # "raised"
        /\ bpc # "init" => (bpc = "done" /\ writes = 1 /\ artifact = <<>>)

(* what the empty batch does: it raises before anything is written *)
EmptyBatchRaises ==
    (N = 0 /\ bpc # "init") =>
        (bpc = "raised" /\ writes = 0 /\ artifact = <<>> /\ Submitted(cases) = {})

(* C33: the artifact is written at most once, by the batch call that       *)
(* returns, and then every case of the batch has returned its report;      *)
(* while a case is pending, and in every run in which a case raised or was *)
(* cancelled, nothing has been written, whatever cases had completed.      *)
Thm_C33_ArtifactWrittenOnce ==
    /\ writes \in {0, 1}
    /\ writes = 1 <=> bpc = "done"
    /\ writes = 0 => artifact = <<>>
    /\ writes = 1 =>
          /\ \A i \in 1 .. N : cases[i].pc = "done"
          /\ artifact = CombinedReport(variant, inputs, GatherResults(cases))
    /\ (\E i \in 1 .. N : Pending(cases[i])) => writes = 0
    /\ (\E i \in 1 .. N : cases[i].pc \in {"raised", "cancelled"}) => writes = 0

(* a case raised after another one had completed: nothing is written *)
Wit_C33_ArtifactWrittenOnce ==
    /\ N >= 2
    /\ bpc = "raised"
    /\ \E i \in 1 .. N : cases[i].pc = "done" /\ cases[i].report # <<>>
    /\ \E i \in 1 .. N : cases[i].pc = "raised"
    /\ writes = 0
    /\ artifact = <<>>

(* the batch that returned has written its artifact *)
Wit_C33_Written ==
    /\ N >= 2
    /\ bpc = "done"
    /\ writes = 1
    /\ artifact # <<>>

(* the schema-constrained split of case c waits for its backend call *)
SchemaSplitPending(c) ==
    /\ variant = "radiology_report_generator"
    /\ c.pc = "split"
    /\ c.cur.pc = "inflight"

(* case c2 sleeps before the one retry of its segmentation call *)
SplitRetrying(c2) ==
    /\ c2.pc = "split"
    /\ c2.cur.pc = "sleeping"
    /\ c2.cur.sleeps = <<SplitRetryDelay>>
    /\ c2.cur.calls = 1

(* split has returned the empty record: no section call, no further        *)
(* segmentation call                                                       *)
SplitGaveUp(c2) ==
    /\ c2.pc # "split"
    /\ c2.info = EmptyPatientInfo
    /\ c2.tasks = <<>>
    /\ ~IsSplitPrompt(c2.cur.prompt)

(* C34: the schema-constrained split makes at most two backend calls and   *)
(* at most one sleep, of the fixed length; whatever the pending call       *)
(* returns, the split retries only after a first call that failed with     *)
(* RateLimited, and every other failure of the first call                  *)
(* (TransientConnectivity included) and every failure of the retry give    *)
(* the empty record without a further call.                                *)
Thm_C34_SchemaSplitRetry ==
    \A i \in 1 .. N :
        LET c == cases[i] IN
        /\ (variant = "radiology_report_generator" /\ c.pc = "split") =>
              /\ c.cur.calls \in {1, 2}
              /\ c.cur.attempt = c.cur.calls - 1 \/ c.cur.pc = "sleeping"
              /\ c.cur.sleeps \in {<<>>, <<SplitRetryDelay>>}
              /\ c.cur.calls = 2 => c.cur.sleeps = <<SplitRetryDelay>>
        /\ SchemaSplitPending(c) =>
              \A o \in OutcomesFor(c.cur.prompt) :
                  LET c2 == CurReturn(c, o, variant, inputs[i], max_retries,
                                      initial_delay)
                  IN  /\ SplitRetrying(c2) => (c.cur.calls = 1 /\ RateLimited(o))
                      /\ (IsErr(o) /\ ~SplitRetrying(c2)) => SplitGaveUp(c2)
                      /\ (IsErr(o) /\ ~RateLimited(o)) => SplitGaveUp(c2)
                      /\ (IsErr(o) /\ c.cur.calls = 2) => SplitGaveUp(c2)
                      /\ c2.pc = "split" => SplitRetrying(c2)
                      /\ c2.cur.calls <= 2

(* the retry of the segmentation call is in flight *)
Wit_C34_SchemaSplitRetry ==
    /\ N = 1
    /\ SchemaSplitPending(TheCase)
    /\ TheCase.cur.calls = 2
    /\ TheCase.cur.sleeps = <<SplitRetryDelay>>
    /\ errs_left = MaxCaseErrors - 1

(* a first call that failed with RateLimited and is not retried: the error *)
(* passes the rate test of generate_response_async, not the one of split   *)
RateLimitedNotRetried ==
    \E i \in 1 .. N :
        /\ SchemaSplitPending(cases[i])
        /\ cases[i].cur.calls = 1
        /\ \E o \in OutcomesFor(cases[i].cur.prompt) :
              /\ RateLimited(o)
              /\ SplitGaveUp(CurReturn(cases[i], o, variant, inputs[i],
                                       max_retries, initial_delay))

Wit_C35_NoAttempt ==
    /\ g.pc = "done"
    /\ max_retries = 0
    /\ g.result = FB_EXHAUST
    /\ g.calls = 0

(* the error of the first class e matches and of no class after it *)
FirstClassOf(e) ==
    [e EXCEPT !.conn = IF e.rate THEN FALSE ELSE @,
              !.policy = IF e.rate \/ e.conn THEN FALSE ELSE @]

(* C36: every error is handled, and handled as its first matching class in *)
(* the order RateLimited, TransientConnectivity, ContentPolicyBlocked,     *)
(* Other: at every attempt the handler does with an error what it does     *)
(* with an error of that class alone; in particular an error of a          *)
(* retryable class that also matches ContentPolicyBlocked is retried while *)
(* attempts remain.                                                        *)
Claim_C36_ClassPrecedence ==
    g.pc = "inflight" =>
        \A e \in Errors :
            LET h == OnError(e, g.attempt, max_retries, initial_delay) IN
            /\ h.act \in {"sleep", "return"}
            /\ h = OnError(FirstClassOf(e), g.attempt, max_retries, initial_delay)
            /\ ((e.rate \/ e.conn) /\ e.policy /\ g.attempt < max_retries - 1) =>
                  h.act = "sleep"

(* the parts of C36 that hold: the classification is total, the rate test  *)
(* comes first at every attempt, and a retryable error that also matches   *)
(* the policy test is retried while attempts remain                        *)
RetryableBeforePolicy ==
    g.pc = "inflight" =>
        \A e \in Errors :
            LET h == OnError(e, g.attempt, max_retries, initial_delay) IN
            /\ h.act \in {"sleep", "return"}
            /\ e.rate =>
                  h = OnError(FirstClassOf(e), g.attempt, max_retries, initial_delay)
            /\ g.attempt < max_retries - 1 =>
                  h = OnError(FirstClassOf(e), g.attempt, max_retries, initial_delay)
            /\ ((e.rate \/ e.conn) /\ e.policy /\ g.attempt < max_retries - 1) =>
                  h.act = "sleep"

(* the record of case c is in place: segmentation has returned *)
FromRecord(c) == c.pc \in {"organs", "others", "impression", "done"}

(* the canonical section calls each copy dispatches for a record *)
AgentTasks(info) == BuildTasks("radiology_agent_system", info, max_retries)
GeneratorTasks(info) == BuildTasks("radiology_report_generator", info, max_retries)

(* C37: from the record onward the two copies are equivalent: for every    *)
(* record a case reaches, radiology_agent_system.py and                    *)
(* radiology_report_generator.py dispatch the same canonical section calls *)
(* in the same order (the same requests, attempt counters and delays).     *)
Claim_C37_CopiesEquivalent ==
    \A i \in 1 .. N :
        FromRecord(cases[i]) => AgentTasks(cases[i].info) = GeneratorTasks(cases[i].info)

(* the parts of C37 that hold: the copies dispatch calls for the same      *)
(* sections in the same order, in the same call state, and with the same   *)
(* request for every section but gallbladder and pancreas                  *)
SameSectionsOtherWording ==
    \A i \in 1 .. N :
        FromRecord(cases[i]) =>
            LET a == AgentTasks(cases[i].info)
                r == GeneratorTasks(cases[i].info) IN
            /\ Len(a) = Len(r)
            /\ \A k \in 1 .. Len(a) :
                  /\ a[k].key = r[k].key
                  /\ [a[k].call EXCEPT !.prompt = <<>>] = [r[k].call EXCEPT !.prompt = <<>>]
                  /\ a[k].key \notin {"gb", "pancreas"} => a[k].call = r[k].call
                  /\ a[k].key \in {"gb", "pancreas"} => a[k].call.prompt # r[k].call.prompt

(* a record with a pancreas text has reached the section dispatch *)
PancreasDispatched ==
    \E i \in 1 .. N : FromRecord(cases[i]) /\ HasText(cases[i].info.pancreas)

====
